---- MODULE Spec2Model ----
(***************************************************************************)
(* A model of the OpenAgent agent runtime: the stdio JSON-RPC dispatcher   *)
(* (server/jsonrpc.py), the chat.send turn (server/handlers.py,            *)
(* core/agent.py), the token ledger (telemetry/tokens.py) and the context  *)
(* builder (memory/context.py).                                            *)
(*                                                                         *)
(* Texts are TLA+ strings; None and the empty string are both modelled as  *)
(* "" wherever the code only tests truthiness (`if system_prompt:`).       *)
(***************************************************************************)
EXTENDS Integers, Sequences, FiniteSets, TLC

(***************************************************************************)
(* Bounds of the model.                                                    *)
(***************************************************************************)
MaxLog == 2

MaxRows == 3

MaxRequests == 2

MaxInbox == 2

MaxChunks == 2

(***************************************************************************)
(* State.  cm*: the context builder with one conversation log.  lg*: the   *)
(* token ledger with two tracker instances.  ta*: a ToolAgent and the      *)
(* calls of its tool loop.  The rest: the server.                          *)
(***************************************************************************)
VARIABLES cmConfig, cmSummary, cmLog, cmArgs, cmWindow, cmBuilt

cmVars == <<cmConfig, cmSummary, cmLog, cmArgs, cmWindow, cmBuilt>>

VARIABLES lgRows, lgSession, lgCache, lgReturned, lgRecorded, lgLast

lgVars == <<lgRows, lgSession, lgCache, lgReturned, lgRecorded, lgLast>>

VARIABLES
    dbSessions,     \* ids of the rows of table sessions
    dbMessages,     \* rows of table messages, in insertion order
    dbUsage,        \* rows of table token_usage, in insertion order
    hasNotify,      \* Handlers._notify is not None
    hasRag,         \* Handlers.rag_query is not None
    envOk,          \* the environment holds the endpoint and key of the LLM
    currentSession, \* Handlers._current_session
    agent,          \* Handlers.agent
    inbox,          \* frames the client has written and the server not yet read
    outbox,         \* frames the server has written, in order
    nextId,         \* the id of the client's next request
    pc,             \* where the dispatcher is: idle, or inside a turn's LLM call
    turn,           \* the chat.send turn in flight, or the last one
    turnLog,        \* what that turn has done so far, in order
    completed       \* per session: completed turns and the usage the LLM reported

srvVars == <<dbSessions, dbMessages, dbUsage, hasNotify, hasRag, envOk,
             currentSession, agent, inbox, outbox, nextId, pc, turn, turnLog,
             completed>>

VARIABLES
    taPrompt,       \* ToolAgent.config.system_prompt
    taToolPrompt,   \* what _get_tool_prompt returns ("" for an empty registry)
    taMax,          \* ToolAgentConfig.max_tool_iterations
    taCalls         \* per caller: its chat_with_tools / chat_stream_with_tools call

taVars == <<taPrompt, taToolPrompt, taMax, taCalls>>

VARIABLES
    stLast          \* the last call made on the store directly, and how it ended

stVars == <<stLast>>

VARIABLES
    rpcIn,          \* lines written to stdin that run has not read yet
    rpcOut,         \* frames run has written to stdout, in order
    rpcRuns,        \* the handler invocations so far, in order
    rpcSent,        \* how many lines the client has written
    rpcClosed,      \* the client has closed stdin
    rpcRunning      \* run is still in its loop

rpcVars == <<rpcIn, rpcOut, rpcRuns, rpcSent, rpcClosed, rpcRunning>>

VARIABLES
    tkBudget,       \* TokenTracker.budget (NoBudget: None)
    tkRows,         \* rows of table token_usage, in insertion order
    tkCache,        \* TokenTracker._cache
    tkListeners,    \* TokenTracker._listeners
    tkBehaviour,    \* what each callback does when it is called
    tkLast          \* the last call on the tracker and how it ended

tkVars == <<tkBudget, tkRows, tkCache, tkListeners, tkBehaviour, tkLast>>

VARIABLES
    hsRows,         \* the session's rows of table messages, in rowid order
    hsNextId,       \* the id AUTOINCREMENT gives the next row
    hsLast          \* the last call on the history and what it returned

hsVars == <<hsRows, hsNextId, hsLast>>

VARIABLES
    rgDb,           \* the Chroma database: per collection name its handle generation and chunks
    rgStore,        \* Handlers.rag_store
    rgQuery,        \* Handlers.rag_query
    rgPath,         \* Handlers._current_codebase_path
    rgSessions,     \* the codebase paths of the sessions created so far
    rgCurrent,      \* the codebase path of Handlers._current_session
    rgAgent,        \* Handlers.agent: none, or an agent with or without an intent router
    rgCalls,        \* how many requests the handlers have served
    rgIngested,     \* every chunk ever ingested
    rgCleared,      \* per collection name: the serial of the request that cleared it last
    rgLast,         \* the last request and its result
    rgStdout,       \* the lines that reached the process's standard output
    rgBuffer        \* the lines print() left in sys.stdout's buffer

rgVars == <<rgDb, rgStore, rgQuery, rgPath, rgSessions, rgCurrent, rgAgent, rgCalls,
            rgIngested, rgCleared, rgLast, rgStdout, rgBuffer>>

VARIABLES
    mcRequestId,    \* per tool server connection: MCPServer._request_id
    mcPending,      \* per connection: the keys of MCPServer._pending
    mcReq,          \* per connection and request id: how far the request has got
    mcPipe,         \* per connection: what the next readline calls of the read loop give
    mcReader,       \* per connection: the read loop, running or stopped
    mcProcess,      \* per connection: the subprocess, running or exited
    mcLines         \* how many lines the subprocesses have written

mcVars == <<mcRequestId, mcPending, mcReq, mcPipe, mcReader, mcProcess, mcLines>>

VARIABLES
    mhServers,      \* the keys of MCPHost._servers
    mhOffers,       \* per registered server: the names in MCPServer.tools
    mhTools,        \* MCPHost._tools: per tool name, the server_name of its entry
    mhLast          \* the last operation on the host and its outcome

mhVars == <<mhServers, mhOffers, mhTools, mhLast>>

\* What the operations of one part leave alone: the state of the other parts.
exceptCm == <<rpcVars, lgVars, srvVars, taVars, stVars, tkVars, hsVars, rgVars, mcVars, mhVars>>

exceptLg == <<rpcVars, cmVars, srvVars, taVars, stVars, tkVars, hsVars, rgVars, mcVars, mhVars>>

exceptSrv == <<rpcVars, cmVars, lgVars, taVars, stVars, tkVars, hsVars, rgVars, mcVars, mhVars>>

exceptTa == <<rpcVars, cmVars, lgVars, srvVars, stVars, tkVars, hsVars, rgVars, mcVars, mhVars>>

exceptStore == <<cmVars, lgVars, taVars, rpcVars, tkVars, hsVars, rgVars, mcVars, mhVars>>

exceptRpc == <<cmVars, lgVars, srvVars, taVars, stVars, tkVars, hsVars, rgVars, mcVars, mhVars>>

exceptTk == <<cmVars, lgVars, srvVars, taVars, stVars, rpcVars, hsVars, rgVars, mcVars, mhVars>>

exceptHs == <<cmVars, lgVars, srvVars, taVars, stVars, rpcVars, tkVars, rgVars, mcVars, mhVars>>

exceptRg == <<cmVars, lgVars, srvVars, taVars, stVars, rpcVars, tkVars, hsVars, mcVars, mhVars>>

exceptMc == <<cmVars, lgVars, srvVars, taVars, stVars, rpcVars, tkVars, hsVars, rgVars, mhVars>>

exceptMh == <<cmVars, lgVars, srvVars, taVars, stVars, rpcVars, tkVars, hsVars, rgVars, mcVars>>

(***************************************************************************)
(* Small helpers.                                                          *)
(***************************************************************************)
Min(a, b) == IF a <= b THEN a ELSE b

Max(a, b) == IF a >= b THEN a ELSE b

Last(s) == s[Len(s)]

(***************************************************************************)
(* memory/context.py                                                       *)
(***************************************************************************)
\* ContextManager._estimate_tokens: len(text) // 4 + 1
EstimateTokens(text) == (Len(text) \div 4) + 1

\* ContextConfig.available_for_context
AvailableForContext(cfg) == cfg.max_tokens - cfg.reserved_for_response

\* A builder that ignores the stored count and always estimates.
MsgTokensEstimated(msg) == EstimateTokens(msg.content)

\* msg.token_count or self._estimate_tokens(msg.content)
MsgTokens(msg) ==
    IF msg.token_count # 0 THEN msg.token_count ELSE EstimateTokens(msg.content)

\* {"role": ..., "content": ...}
LLMMsg(role, content) == [role |-> role, content |-> content]

\* The place of row i in `ORDER BY created_at ASC`.  `log` lists the rows in
\* insertion (rowid) order; rows of equal created_at come out in that order.
PlaceAsc(log, i) ==
    Cardinality({j \in 1..Len(log) :
                    \/ log[j].created_at < log[i].created_at
                    \/ log[j].created_at = log[i].created_at /\ j < i}) + 1

\* The place of row i in `ORDER BY created_at DESC`: the sort is on
\* created_at alone, so rows of equal created_at keep their rowid order.
PlaceDesc(log, i) ==
    Cardinality({j \in 1..Len(log) :
                    \/ log[j].created_at > log[i].created_at
                    \/ log[j].created_at = log[i].created_at /\ j < i}) + 1

OrderAsc(log) ==
    [k \in 1..Len(log) |-> log[CHOOSE i \in 1..Len(log) : PlaceAsc(log, i) = k]]

OrderDesc(log) ==
    [k \in 1..Len(log) |-> log[CHOOSE i \in 1..Len(log) : PlaceDesc(log, i) = k]]

\* LIMIT ?
Limit(rows, limit) == SubSeq(rows, 1, Min(limit, Len(rows)))

\* reversed(rows)
Reversed(rows) == [k \in 1..Len(rows) |-> rows[Len(rows) + 1 - k]]

\* ConversationHistory.get_all: ORDER BY created_at ASC
GetAll(log) == OrderAsc(log)

\* ConversationHistory.get_recent(limit):
\* ORDER BY created_at DESC LIMIT ?, then reversed
GetRecent(log, limit) == Reversed(Limit(OrderDesc(log), limit))

\* datetime.now() of an add: a later instant than the newest row's, or, for
\* `tied`, the same instant once more.
Now(log, tied) ==
    IF log = <<>> THEN 1
    ELSE IF tied THEN Last(log).created_at ELSE Last(log).created_at + 1

\* A builder that adds the bundle and the summary without testing the budget.
FitsBeforeHistoryAlways(total, tokens, budget) == TRUE

\* `if total_tokens + rag_tokens < budget` and the same test for the summary
FitsBeforeHistory(total, tokens, budget) == total + tokens < budget

\* A builder that keeps every recent message, whatever the budget.
FitsRecentAlways(remaining, tokens) == TRUE

\* `if remaining_budget >= msg_tokens`
FitsRecent(remaining, tokens) == remaining >= tokens

\* The loop of build over the recent messages, oldest first: it keeps each
\* message that fits the remaining budget and stops (truncated) at the first
\* one that does not.  acc = [msgs, remaining, total, count, truncated].
RECURSIVE FillRecent(_, _, _)
FillRecent(recent, i, acc) ==
    IF i > Len(recent) THEN acc
    ELSE LET msg == recent[i]
             t   == MsgTokens(msg)
         IN IF FitsRecent(acc.remaining, t)
            THEN FillRecent(recent, i + 1,
                   [msgs      |-> Append(acc.msgs, LLMMsg(msg.role, msg.content)),
                    remaining |-> acc.remaining - t,
                    total     |-> acc.total + t,
                    count     |-> acc.count + 1,
                    truncated |-> acc.truncated])
            ELSE [acc EXCEPT !.truncated = TRUE]

RagPrefix == "Relevant context from codebase:\n\n"

SummaryPrefix == "Summary of earlier conversation:\n"

\* ContextManager.build.  `summary` is the cached summary of the session
\* ("" when there is none: _get_or_create_summary returns None).
Build(cfg, history, user_message, system_prompt, rag_context, summary) ==
    LET budget == AvailableForContext(cfg)
        \* 1. system prompt
        sysOn   == system_prompt # ""
        msgs1   == IF sysOn THEN <<LLMMsg("system", system_prompt)>> ELSE <<>>
        total1  == IF sysOn THEN EstimateTokens(system_prompt) ELSE 0
        \* 2. retrieval context
        ragTok  == Min(EstimateTokens(rag_context), cfg.max_rag_tokens)
        ragOn   == rag_context # "" /\ FitsBeforeHistory(total1, ragTok, budget)
        msgs2   == IF ragOn
                   THEN Append(msgs1, LLMMsg("system", RagPrefix \o rag_context))
                   ELSE msgs1
        total2  == IF ragOn THEN total1 + ragTok ELSE total1
        \* 3. summary
        sumTok  == EstimateTokens(summary)
        sumOn   == /\ Len(GetAll(history)) > cfg.summarize_after
                   /\ summary # ""
                   /\ FitsBeforeHistory(total2, sumTok, budget)
        msgs3   == IF sumOn
                   THEN Append(msgs2, LLMMsg("system", SummaryPrefix \o summary))
                   ELSE msgs2
        total3  == IF sumOn THEN total2 + sumTok ELSE total2
        \* 4. recent messages
        recent  == GetRecent(history, cfg.recent_messages)
        userTok == EstimateTokens(user_message)
        filled  == FillRecent(recent, 1,
                     [msgs |-> <<>>, remaining |-> budget - total3 - userTok,
                      total |-> total3, count |-> 0, truncated |-> FALSE])
    IN  \* 5. current user message
        [messages               |-> (msgs3 \o filled.msgs)
                                       \o <<LLMMsg("user", user_message)>>,
         total_tokens           |-> filled.total + userTok,
         included_message_count |-> filled.count + 1,
         truncated              |-> filled.truncated,
         has_summary            |-> sumOn,
         rag_included           |-> ragOn]

(***************************************************************************)
(* The context-builder harness: one ContextManager with its configuration *)
(* and summary cache, one ConversationHistory whose messages were added at *)
(* distinct instants, and the arguments and result of the last build call. *)
(***************************************************************************)
\* Texts of 3, 4, 8 and 12 characters have estimates 1, 2, 3 and 4.
UserTexts == {"abc", "abcdefgh"}

SystemTexts == {"", "abcd", "abcdefghijkl"}

RagTexts == {"", "abc", "abcdefgh"}

SummaryTexts == {"abc"}

LogTexts == {"abc"}

\* 0: no stored count, build estimates the content.
LogTokenCounts == {0, 2}

\* Budgets of 3 and 6 tokens.
Configs ==
    [max_tokens: {4, 7}, reserved_for_response: {1},
     recent_messages: {1, 2}, summarize_after: {1}, max_rag_tokens: {1, 3}]

EmptyWindow ==
    [messages |-> <<>>, total_tokens |-> 0, included_message_count |-> 0,
     truncated |-> FALSE, has_summary |-> FALSE, rag_included |-> FALSE]

\* The arguments of the last build call; `history` and `summary` are the log
\* and the cached summary as they were when build read them.
NoArgs ==
    [user_message |-> "", system_prompt |-> "", rag_context |-> "",
     history |-> <<>>, summary |-> ""]

CmInit ==
    /\ cmConfig \in Configs
    /\ cmSummary = ""
    /\ cmLog = <<>>
    /\ cmArgs = NoArgs
    /\ cmWindow = EmptyWindow
    /\ cmBuilt = FALSE

\* ConversationHistory.add
HistoryAdd(role, content, token_count) ==
    /\ UNCHANGED exceptCm
    /\ Len(cmLog) < MaxLog
    /\ cmLog' = Append(cmLog, [role |-> role, content |-> content,
                               token_count |-> token_count,
                               created_at |-> Now(cmLog, FALSE)])
    /\ UNCHANGED <<cmConfig, cmSummary, cmArgs, cmWindow, cmBuilt>>

\* ContextManager.set_summary
SetSummary(text) ==
    /\ UNCHANGED exceptCm
    /\ cmSummary' = text
    /\ UNCHANGED <<cmConfig, cmLog, cmArgs, cmWindow, cmBuilt>>

\* ContextManager.invalidate_summary
InvalidateSummary ==
    /\ UNCHANGED exceptCm
    /\ cmSummary # ""
    /\ cmSummary' = ""
    /\ UNCHANGED <<cmConfig, cmLog, cmArgs, cmWindow, cmBuilt>>

\* A call of ContextManager.build on the harness's history.
BuildCall(user_message, system_prompt, rag_context) ==
    /\ UNCHANGED exceptCm
    /\ cmArgs' = [user_message |-> user_message, system_prompt |-> system_prompt,
                  rag_context |-> rag_context, history |-> cmLog,
                  summary |-> cmSummary]
    /\ cmWindow' = Build(cmConfig, cmLog, user_message, system_prompt,
                         rag_context, cmSummary)
    /\ cmBuilt' = TRUE
    /\ UNCHANGED <<cmConfig, cmSummary, cmLog>>

CmNext ==
    \/ \E r \in {"user", "assistant"}, c \in LogTexts, t \in LogTokenCounts :
          HistoryAdd(r, c, t)
    \/ \E s \in SummaryTexts : SetSummary(s)
    \/ InvalidateSummary
    \/ \E u \in UserTexts, s \in SystemTexts, r \in RagTexts : BuildCall(u, s, r)

(***************************************************************************)
(* telemetry/tokens.py                                                     *)
(*                                                                         *)
(* The token_usage table is a sequence of rows; a row keeps the session    *)
(* reference and the two token counts.  A SessionTokenStats value keeps    *)
(* the two totals and the request count; `cached` tells a filled cache     *)
(* from `_cache = None`.                                                    *)
(***************************************************************************)
SessionIds == {"s1", "s2"}

TokenCounts == {1, 2}

\* The usage an LLM response reports: <<input_tokens, output_tokens>>.
Usages == {<<1, 2>>, <<2, 1>>}

NoCache == [cached |-> FALSE, total_input |-> 0, total_output |-> 0,
            request_count |-> 0]

\* SessionTokenStats.total_tokens
TotalTokens(stats) == stats.total_input + stats.total_output

\* The rows the query of get_session_stats selects.
SessionRows(rows, sid) == SelectSeq(rows, LAMBDA r : r.session_id = sid)

RECURSIVE SumField(_, _, _)
SumField(rows, i, f) ==
    IF i > Len(rows) THEN 0 ELSE rows[i][f] + SumField(rows, i + 1, f)

\* SELECT COALESCE(SUM(input_tokens),0), COALESCE(SUM(output_tokens),0),
\* COUNT(*) FROM token_usage WHERE session_id = ?
QueryStats(rows, sid) ==
    LET mine == SessionRows(rows, sid)
    IN [cached |-> TRUE,
        total_input |-> SumField(mine, 1, "input_tokens"),
        total_output |-> SumField(mine, 1, "output_tokens"),
        request_count |-> Len(mine)]

\* TokenTracker.get_session_stats: the cached value when there is one,
\* otherwise the query, whose result becomes the cache.
GetSessionStats(cache, rows, sid) ==
    IF cache.cached THEN cache ELSE QueryStats(rows, sid)

\* TokenTracker.record, the inserted table
RecordRows(rows, sid, input, output) ==
    Append(rows, [session_id |-> sid, input_tokens |-> input,
                  output_tokens |-> output])

\* A tracker that keeps its cache across record.
CacheKeptAfterRecord(cache) == cache

\* TokenTracker.record, the tracker's cache afterwards (`self._cache = None`)
CacheAfterRecord(cache) == NoCache

(***************************************************************************)
(* The ledger harness: the token_usage table, two TokenTracker             *)
(* instances (each bound to a session at construction), the value each     *)
(* tracker last returned from get_session_stats, and what has been         *)
(* recorded per session so far.                                            *)
(***************************************************************************)
Trackers == {"t1", "t2"}

NoTotals == [input |-> 0, output |-> 0, count |-> 0]

LgInit ==
    /\ lgRows = <<>>
    /\ lgSession \in [Trackers -> SessionIds]
    /\ lgCache = [t \in Trackers |-> NoCache]
    /\ lgReturned = [t \in Trackers |-> NoCache]
    /\ lgRecorded = [s \in SessionIds |-> NoTotals]
    /\ lgLast = [op |-> "none", tracker |-> "t1"]

\* tracker.record(TokenUsage(input, output, model))
LgRecord(t, input, output) ==
    /\ UNCHANGED exceptLg
    /\ Len(lgRows) < MaxRows
    /\ lgRows' = RecordRows(lgRows, lgSession[t], input, output)
    /\ lgCache' = [lgCache EXCEPT ![t] = CacheAfterRecord(@)]
    /\ lgRecorded' = [lgRecorded EXCEPT ![lgSession[t]] =
                        [input |-> @.input + input, output |-> @.output + output,
                         count |-> @.count + 1]]
    /\ lgLast' = [op |-> "record", tracker |-> t]
    /\ UNCHANGED <<lgSession, lgReturned>>

\* tracker.get_session_stats()
LgGetStats(t) ==
    LET stats == GetSessionStats(lgCache[t], lgRows, lgSession[t])
    IN /\ UNCHANGED exceptLg
       /\ lgCache' = [lgCache EXCEPT ![t] = stats]
       /\ lgReturned' = [lgReturned EXCEPT ![t] = stats]
       /\ lgLast' = [op |-> "get", tracker |-> t]
       /\ UNCHANGED <<lgRows, lgSession, lgRecorded>>

LgNext ==
    \/ \E t \in Trackers, i \in TokenCounts, o \in TokenCounts : LgRecord(t, i, o)
    \/ \E t \in Trackers : LgGetStats(t)

(***************************************************************************)
(* The server: the session store (memory/session.py, conversation.py),     *)
(* the Handlers object with its Agent (server/handlers.py, core/agent.py)  *)
(* and the dispatcher loop (server/jsonrpc.py).                            *)
(***************************************************************************)
NoSession == "none"

\* What RAGQuery.get_context_for_query returns: "" when nothing was found.
Bundles == {"", "ctx"}

\* What the LLM yields and returns.
Chunks == {"a", "b"}

Replies == {"ok"}

\* ContextConfig as create_agent and Agent.__init__ build it.
DefaultContextConfig ==
    [max_tokens |-> 8000, reserved_for_response |-> 1000,
     recent_messages |-> 20, summarize_after |-> 30, max_rag_tokens |-> 2000]

\* The system prompt _init_agent configures.
HandlerPrompt == "You are a helpful AI assistant for understanding codebases."

\* Handlers.agent = None
NoAgent ==
    [kind |-> "none", session |-> NoSession, messages |-> <<>>, prompt |-> "",
     llm |-> "none", tracker |-> FALSE, trackerSession |-> NoSession,
     cache |-> NoCache]

\* Agent.__init__ without a conversation: in-memory mode, _messages starts
\* with the system prompt when there is one.
MemoryAgent(prompt, llm, sid) ==
    [kind |-> "memory", session |-> NoSession,
     messages |-> IF prompt # "" THEN <<LLMMsg("system", prompt)>> ELSE <<>>,
     prompt |-> prompt, llm |-> llm, tracker |-> TRUE, trackerSession |-> sid,
     cache |-> NoCache]

\* create_agent: persistent mode, conversation and tracker on one session.
PersistentAgent(prompt, llm, sid) ==
    [kind |-> "persistent", session |-> sid, messages |-> <<>>,
     prompt |-> prompt, llm |-> llm, tracker |-> TRUE, trackerSession |-> sid,
     cache |-> NoCache]

\* Handlers._init_agent: a new Agent with an AzureOpenAIClient and a
\* TokenTracker on the session, and neither session nor conversation.
InitAgent(sid) == MemoryAgent(HandlerPrompt, "azure", sid)

\* `yielded` lists the chunks the LLM has yielded in the turn, `agentFull`
\* is full_response of Agent.chat_stream, `full` the response text of
\* Handlers.chat_send.
NoTurn ==
    [id |-> 0, message |-> "", streaming |-> FALSE, rag |-> "", context |-> <<>>,
     yielded |-> <<>>, agentFull |-> "", full |-> "", chunks |-> 0,
     failed |-> FALSE, phase |-> "none"]

\* Frames on the output stream.  A notification carries the id of the turn
\* that emitted it in `id` (the wire frame has none).
ResponseFrame(id, text, tokens, code) ==
    [kind |-> "response", id |-> id, method |-> "", text |-> text,
     done |-> FALSE, tokens |-> tokens, code |-> code]

ChunkFrame(id, chunk) ==
    [kind |-> "notification", id |-> id, method |-> "chat.stream", text |-> chunk,
     done |-> FALSE, tokens |-> NoCache, code |-> 0]

DoneFrame(id, tokens) ==
    [kind |-> "notification", id |-> id, method |-> "chat.stream", text |-> "",
     done |-> TRUE, tokens |-> tokens, code |-> 0]

\* A request frame as the client writes it.  `during` is the id of the turn
\* that was in flight when the frame was written (0: none).
RequestFrame(id, method, message, stream, use_rag, sid, during) ==
    [id |-> id, method |-> method, message |-> message, stream |-> stream,
     use_rag |-> use_rag, sid |-> sid, during |-> during]

\* The rows of one session in table messages, as ConversationHistory reads them.
SessionLog(rows, sid) == SelectSeq(rows, LAMBDA r : r.session_id = sid)

\* A row of table messages.  The server's adds are separated by a model call
\* or a client round trip, so its rows carry increasing instants.
MessageRow(sid, role, content, token_count, created_at) ==
    [session_id |-> sid, role |-> role, content |-> content,
     token_count |-> token_count, created_at |-> created_at]

\* Agent._get_context
GetContext(a, rows, user_message, rag_context) ==
    IF a.kind = "persistent"
    THEN Build(DefaultContextConfig, SessionLog(rows, a.session), user_message,
               a.prompt, rag_context, "").messages
    ELSE a.messages \o <<LLMMsg("user", user_message)>>

\* A store whose connections do not enforce foreign keys.
ForeignKeyUnchecked(sid, sessions) == FALSE

\* `PRAGMA foreign_keys = ON` on every connection: an insert that references
\* session sid raises when table sessions has no such row.
ForeignKeyFails(sid, sessions) == sid \notin sessions

\* ON DELETE CASCADE: the rows of a table left once session sid is deleted.
DeleteCascade(rows, sid) == SelectSeq(rows, LAMBDA r : r.session_id # sid)

\* Agent._record_message: does the insert raise?  (foreign key on a session
\* row that is gone)
RecordMessageRaises(a, sessions) ==
    a.kind = "persistent" /\ ForeignKeyFails(a.session, sessions)

\* Agent._record_message: the messages table afterwards
RecordMessageRows(a, rows, role, content, token_count) ==
    IF a.kind = "persistent"
    THEN Append(rows, MessageRow(a.session, role, content, token_count,
                                 Now(rows, FALSE)))
    ELSE rows

\* Agent._record_message: the agent afterwards
RecordMessageAgent(a, role, content) ==
    IF a.kind = "persistent" THEN a
    ELSE [a EXCEPT !.messages = Append(@, LLMMsg(role, content))]

\* Agent._record_usage / TokenTracker.record: does the insert raise?
RecordUsageRaises(a, sessions) ==
    a.tracker /\ ForeignKeyFails(a.trackerSession, sessions)

\* The tracker's stats as the handler reads them (None without a tracker).
AgentStats(a, usageRows) ==
    IF a.tracker THEN GetSessionStats(a.cache, usageRows, a.trackerSession)
    ELSE NoCache

SrvInit ==
    /\ hasNotify \in BOOLEAN
    /\ hasRag \in BOOLEAN
    /\ envOk \in BOOLEAN
    /\ \/ /\ dbSessions = {}
          /\ agent = NoAgent
       \/ /\ dbSessions = {"s1"}
          /\ \E llm \in {"azure", "other"} :
                agent \in {PersistentAgent("", llm, "s1"), MemoryAgent("", llm, "s1")}
    /\ dbMessages = <<>>
    /\ dbUsage = <<>>
    /\ currentSession = NoSession
    /\ inbox = <<>>
    /\ outbox = <<>>
    /\ nextId = 1
    /\ pc = "idle"
    /\ turn = NoTurn
    /\ turnLog = <<>>
    /\ completed = [s \in SessionIds |-> NoTotals]

(***************************************************************************)
(* The client writes a request frame.  The dispatcher reads it only when   *)
(* it is back at `await reader.readline()`.                                *)
(***************************************************************************)
InFlight == IF pc = "idle" THEN 0 ELSE turn.id

ClientSend(method, message, stream, use_rag, sid) ==
    /\ UNCHANGED exceptSrv
    /\ nextId <= MaxRequests
    /\ Len(inbox) < MaxInbox
    /\ inbox' = Append(inbox, RequestFrame(nextId, method, message, stream,
                                           use_rag, sid, InFlight))
    /\ nextId' = nextId + 1
    /\ UNCHANGED <<dbSessions, dbMessages, dbUsage, hasNotify, hasRag, envOk,
                   currentSession, agent, outbox, pc, turn, turnLog, completed>>

\* JSONRPCServer.run: the loop reads the next line only after the handler of
\* the previous one has returned and its response is written.
CanRead(method) ==
    /\ pc = "idle"
    /\ inbox # <<>>
    /\ Head(inbox).method = method

\* JSONRPCServer._handle + _write for a handler that returned `text`
Respond(id, text, tokens, code) ==
    outbox' = Append(outbox, ResponseFrame(id, text, tokens, code))

(***************************************************************************)
(* chat.send, up to the point where the LLM call is awaited.               *)
(***************************************************************************)
ChatSendStart(bundle) ==
    /\ UNCHANGED exceptSrv
    /\ CanRead("chat.send")
    /\ LET f        == Head(inbox)
           useIndex == f.use_rag /\ hasRag
           rag      == IF useIndex THEN bundle ELSE ""
           ctx      == GetContext(agent, dbMessages, f.message, rag)
           started  == [id |-> f.id, message |-> f.message,
                        streaming |-> f.stream /\ hasNotify, rag |-> rag,
                        context |-> ctx, yielded |-> <<>>,
                        agentFull |-> "", full |-> "", chunks |-> 0,
                        failed |-> FALSE, phase |-> "llm"]
       IN /\ (~useIndex => bundle = "")
          /\ inbox' = Tail(inbox)
          /\ IF agent.kind = "none"
             THEN /\ Respond(f.id, "error: Agent not initialized", NoCache, 0)
                  /\ turn' = [NoTurn EXCEPT !.id = f.id, !.phase = "rejected"]
                  /\ turnLog' = <<>>
                  /\ UNCHANGED <<dbMessages, agent, pc>>
             ELSE IF f.message = ""
             THEN /\ Respond(f.id, "error: No message provided", NoCache, 0)
                  /\ turn' = [NoTurn EXCEPT !.id = f.id, !.phase = "rejected"]
                  /\ turnLog' = <<>>
                  /\ UNCHANGED <<dbMessages, agent, pc>>
             ELSE IF RecordMessageRaises(agent, dbSessions)
             THEN \* conversation.add raises inside the try block
                  /\ Respond(f.id, "Error calling LLM", NoCache, 0)
                  /\ turn' = [started EXCEPT !.phase = "error", !.context = <<>>]
                  /\ turnLog' = <<"response">>
                  /\ UNCHANGED <<dbMessages, agent, pc>>
             ELSE /\ dbMessages' = RecordMessageRows(agent, dbMessages, "user",
                                                     f.message, 0)
                  /\ agent' = RecordMessageAgent(agent, "user", f.message)
                  /\ turn' = started
                  /\ turnLog' = <<"user_msg", "llm_call">>
                  /\ pc' = IF started.streaming THEN "stream" ELSE "complete"
                  /\ UNCHANGED outbox
    /\ UNCHANGED <<dbSessions, dbUsage, hasNotify, hasRag, envOk, currentSession,
                   nextId, completed>>

\* The index query or the intent extractor raises: the handler's except
\* block answers, nothing was recorded.
ChatSendRetrievalFails ==
    /\ UNCHANGED exceptSrv
    /\ CanRead("chat.send")
    /\ LET f == Head(inbox)
       IN /\ agent.kind # "none"
          /\ f.message # ""
          /\ f.use_rag /\ hasRag
          /\ inbox' = Tail(inbox)
          /\ Respond(f.id, "Error calling LLM", NoCache, 0)
          /\ turn' = [NoTurn EXCEPT !.id = f.id, !.message = f.message,
                                    !.phase = "error"]
          /\ turnLog' = <<"response">>
    /\ UNCHANGED <<dbSessions, dbMessages, dbUsage, hasNotify, hasRag, envOk,
                   currentSession, agent, nextId, pc, completed>>

(***************************************************************************)
(* Agent.chat after `await self.llm.complete(...)`, then the rest of       *)
(* Handlers.chat_send and the dispatcher's write of the response.          *)
(***************************************************************************)
LLMReturn(content, input, output) ==
    /\ UNCHANGED exceptSrv
    /\ pc = "complete"
    /\ pc' = "idle"
    /\ IF RecordUsageRaises(agent, dbSessions)
       THEN /\ Respond(turn.id, "Error calling LLM", NoCache, 0)
            /\ turn' = [turn EXCEPT !.phase = "error"]
            /\ turnLog' = Append(turnLog, "response")
            /\ UNCHANGED <<dbMessages, dbUsage, agent, completed>>
       ELSE LET usage1 == IF agent.tracker
                          THEN RecordRows(dbUsage, agent.trackerSession,
                                          input, output)
                          ELSE dbUsage
                a1     == IF agent.tracker
                          THEN [agent EXCEPT !.cache = CacheAfterRecord(@)]
                          ELSE agent
                a2     == RecordMessageAgent(a1, "assistant", content)
                stats  == AgentStats(a2, usage1)
            IN /\ dbUsage' = usage1
               /\ dbMessages' = RecordMessageRows(agent, dbMessages, "assistant",
                                                  content, output)
               /\ agent' = [a2 EXCEPT !.cache = stats]
               /\ Respond(turn.id, content, stats, 0)
               /\ turn' = [turn EXCEPT !.full = content, !.phase = "ok"]
               /\ turnLog' = (turnLog \o (IF agent.tracker THEN <<"usage">>
                                          ELSE <<>>))
                                \o <<"assistant_msg", "response">>
               /\ completed' =
                    IF agent.tracker
                    THEN [completed EXCEPT ![agent.trackerSession] =
                            [input |-> @.input + input,
                             output |-> @.output + output, count |-> @.count + 1]]
                    ELSE completed
    /\ UNCHANGED <<dbSessions, hasNotify, hasRag, envOk, currentSession, inbox,
                   nextId>>

\* llm.complete raises: the handler's except block answers.
LLMRaise ==
    /\ UNCHANGED exceptSrv
    /\ pc = "complete"
    /\ pc' = "idle"
    /\ Respond(turn.id, "Error calling LLM", NoCache, 0)
    /\ turn' = [turn EXCEPT !.phase = "error", !.failed = TRUE]
    /\ turnLog' = Append(turnLog, "response")
    /\ UNCHANGED <<dbSessions, dbMessages, dbUsage, hasNotify, hasRag, envOk,
                   currentSession, agent, inbox, nextId, completed>>

(***************************************************************************)
(* The streaming path: Agent.chat_stream inside Handlers.chat_send.        *)
(***************************************************************************)
\* An accumulator that keeps only the chunk that arrived last.
AccumulateLatest(full_response, chunk) == chunk

\* `full_response += chunk`
Accumulate(full_response, chunk) == full_response \o chunk

\* The LLM yields a chunk: the agent accumulates and yields it, the handler
\* accumulates it and sends it as a chat.stream notification.
StreamChunk(chunk) ==
    /\ UNCHANGED exceptSrv
    /\ pc = "stream"
    /\ turn.chunks < MaxChunks
    /\ turn' = [turn EXCEPT !.yielded = Append(@, chunk),
                            !.agentFull = Accumulate(@, chunk),
                            !.full = Accumulate(@, chunk),
                            !.chunks = @ + 1]
    /\ outbox' = Append(outbox, ChunkFrame(turn.id, chunk))
    /\ turnLog' = Append(turnLog, "chunk")
    /\ UNCHANGED <<dbSessions, dbMessages, dbUsage, hasNotify, hasRag, envOk,
                   currentSession, agent, inbox, nextId, pc, completed>>

\* The generator of llm.stream is exhausted: the agent records the assistant
\* message, the handler sends done with the tracker's stats and returns.
\* `failed` tells whether the model call behind the stream had failed.
FinishStream(failed) ==
    LET a1    == RecordMessageAgent(agent, "assistant", turn.agentFull)
        stats == AgentStats(a1, dbUsage)
    IN /\ pc' = "idle"
       /\ dbMessages' = RecordMessageRows(agent, dbMessages, "assistant",
                                          turn.agentFull, 0)
       /\ agent' = [a1 EXCEPT !.cache = stats]
       /\ outbox' = (outbox \o <<DoneFrame(turn.id, stats)>>)
                       \o <<ResponseFrame(turn.id, turn.full, stats, 0)>>
       /\ turn' = [turn EXCEPT !.phase = "ok", !.failed = failed]
       /\ turnLog' = turnLog \o <<"assistant_msg", "done", "response">>
       /\ completed' =
            IF agent.tracker
            THEN [completed EXCEPT ![agent.trackerSession].count = @ + 1]
            ELSE completed
       /\ UNCHANGED <<dbSessions, dbUsage, hasNotify, hasRag, envOk,
                      currentSession, inbox, nextId>>

StreamEnd ==
    /\ UNCHANGED exceptSrv
    /\ pc = "stream"
    /\ FinishStream(FALSE)

\* The model call fails, before the first chunk or between chunks.
\* AzureOpenAIClient.stream runs the call in a worker thread whose exception
\* nobody reads and whose `finally` queues the end marker: the stream just
\* ends.  Any other LLMClient raises into the handler's except block.
StreamFail ==
    /\ UNCHANGED exceptSrv
    /\ pc = "stream"
    /\ IF agent.llm = "azure"
       THEN FinishStream(TRUE)
       ELSE /\ pc' = "idle"
            /\ Respond(turn.id, "Error calling LLM", NoCache, 0)
            /\ turn' = [turn EXCEPT !.phase = "error", !.failed = TRUE]
            /\ turnLog' = Append(turnLog, "response")
            /\ UNCHANGED <<dbSessions, dbMessages, dbUsage, hasNotify, hasRag,
                           envOk, currentSession, agent, inbox, nextId,
                           completed>>

(***************************************************************************)
(* The other handlers run to completion without awaiting anything.         *)
(***************************************************************************)
\* Handlers.chat_cancel
ChatCancel ==
    /\ UNCHANGED exceptSrv
    /\ CanRead("chat.cancel")
    /\ inbox' = Tail(inbox)
    /\ Respond(Head(inbox).id, "cancelled: false", NoCache, 0)
    /\ UNCHANGED <<dbSessions, dbMessages, dbUsage, hasNotify, hasRag, envOk,
                   currentSession, agent, nextId, pc, turn, turnLog, completed>>

\* Handlers.session_create: SessionManager.create with an id drawn from the
\* uuid source (a collision violates the primary key and raises), then
\* _init_agent, whose AzureOpenAIClient() raises without endpoint and key.
SessionCreate(sid) ==
    /\ UNCHANGED exceptSrv
    /\ CanRead("session.create")
    /\ inbox' = Tail(inbox)
    /\ IF sid \in dbSessions
       THEN /\ Respond(Head(inbox).id, "Internal error", NoCache, -32603)
            /\ UNCHANGED <<dbSessions, currentSession, agent>>
       ELSE /\ dbSessions' = dbSessions \cup {sid}
            /\ currentSession' = sid
            /\ IF envOk
               THEN /\ agent' = InitAgent(sid)
                    /\ Respond(Head(inbox).id, sid, NoCache, 0)
               ELSE /\ Respond(Head(inbox).id, "Internal error", NoCache, -32603)
                    /\ UNCHANGED agent
    /\ UNCHANGED <<dbMessages, dbUsage, hasNotify, hasRag, envOk, nextId, pc,
                   turn, turnLog, completed>>

\* Handlers.session_load
SessionLoad ==
    /\ UNCHANGED exceptSrv
    /\ CanRead("session.load")
    /\ inbox' = Tail(inbox)
    /\ LET f == Head(inbox)
       IN IF f.sid \notin dbSessions
          THEN /\ Respond(f.id, "error: Session not found", NoCache, 0)
               /\ UNCHANGED <<currentSession, agent>>
          ELSE /\ currentSession' = f.sid
               /\ IF envOk
                  THEN /\ agent' = InitAgent(f.sid)
                       /\ Respond(f.id, f.sid, NoCache, 0)
                  ELSE /\ Respond(f.id, "Internal error", NoCache, -32603)
                       /\ UNCHANGED agent
    /\ UNCHANGED <<dbSessions, dbMessages, dbUsage, hasNotify, hasRag, envOk,
                   nextId, pc, turn, turnLog, completed>>

\* Handlers.session_delete: SessionManager.delete; the foreign keys cascade
\* to the session's messages and usage rows.
SessionDelete ==
    /\ UNCHANGED exceptSrv
    /\ CanRead("session.delete")
    /\ inbox' = Tail(inbox)
    /\ LET f == Head(inbox)
       IN /\ dbSessions' = dbSessions \ {f.sid}
          /\ dbMessages' = DeleteCascade(dbMessages, f.sid)
          /\ dbUsage' = DeleteCascade(dbUsage, f.sid)
          /\ completed' = [completed EXCEPT ![f.sid] = NoTotals]
          /\ Respond(f.id, IF f.sid \in dbSessions THEN "deleted: true"
                           ELSE "deleted: false", NoCache, 0)
    /\ UNCHANGED <<hasNotify, hasRag, envOk, currentSession, agent, nextId, pc,
                   turn, turnLog>>

\* Handlers.tokens_get
TokensGet ==
    /\ UNCHANGED exceptSrv
    /\ CanRead("tokens.get")
    /\ inbox' = Tail(inbox)
    /\ LET stats == AgentStats(agent, dbUsage)
       IN /\ agent' = IF agent.tracker THEN [agent EXCEPT !.cache = stats]
                      ELSE agent
          /\ Respond(Head(inbox).id, "tokens",
                     IF agent.tracker THEN stats
                     ELSE [NoCache EXCEPT !.cached = TRUE], 0)
    /\ UNCHANGED <<dbSessions, dbMessages, dbUsage, hasNotify, hasRag, envOk,
                   currentSession, nextId, pc, turn, turnLog, completed>>

SrvNext ==
    \/ \E st \in BOOLEAN, r \in BOOLEAN :
          ClientSend("chat.send", "hi", st, r, NoSession)
    \/ ClientSend("chat.send", "", TRUE, TRUE, NoSession)
    \/ \E m \in {"chat.cancel", "session.create", "tokens.get"} :
          ClientSend(m, "", FALSE, FALSE, NoSession)
    \/ \E m \in {"session.load", "session.delete"}, sid \in SessionIds :
          ClientSend(m, "", FALSE, FALSE, sid)
    \/ \E b \in Bundles : ChatSendStart(b)
    \/ ChatSendRetrievalFails
    \/ \E c \in Replies, u \in Usages : LLMReturn(c, u[1], u[2])
    \/ LLMRaise
    \/ \E c \in Chunks : StreamChunk(c)
    \/ StreamEnd
    \/ StreamFail
    \/ ChatCancel
    \/ \E sid \in SessionIds : SessionCreate(sid)
    \/ SessionLoad
    \/ SessionDelete
    \/ TokensGet

(***************************************************************************)
(* The store used directly: SessionManager, ConversationHistory and        *)
(* TokenTracker objects on one database file.  A ConversationHistory or a  *)
(* TokenTracker keeps the session id it was built with, whether or not the *)
(* session row still exists.  Every call is one committed transaction.     *)
(***************************************************************************)
MaxStoreRows == 2

StoreRoles == {"user", "system"}

\* `rows`: how many rows of messages and token_usage the call removed.
NoStoreCall == [op |-> "none", sid |-> NoSession, raised |-> FALSE, rows |-> 0]

StoreCall(op, sid, raised, rows) ==
    [op |-> op, sid |-> sid, raised |-> raised, rows |-> rows]

StoreInit ==
    /\ dbSessions = {}
    /\ dbMessages = <<>>
    /\ dbUsage = <<>>
    /\ stLast = NoStoreCall

\* What the store calls never touch.
StoreFrame ==
    /\ UNCHANGED exceptStore
    /\ UNCHANGED <<hasNotify, hasRag, envOk, currentSession, agent, inbox, outbox,
                   nextId, pc, turn, turnLog, completed>>

\* SessionManager.create with the id the uuid source gives; a collision
\* violates the primary key and the insert raises.
StCreate(sid) ==
    /\ StoreFrame
    /\ dbSessions' = dbSessions \cup {sid}
    /\ stLast' = StoreCall("create", sid, sid \in dbSessions, 0)
    /\ UNCHANGED <<dbMessages, dbUsage>>

\* SessionManager.load: None for an unknown id, else last_accessed advances.
StLoad(sid) ==
    /\ StoreFrame
    /\ stLast' = StoreCall("load", sid, FALSE, 0)
    /\ UNCHANGED <<dbSessions, dbMessages, dbUsage>>

\* SessionManager.delete: one DELETE, cascading to messages and token_usage.
StDelete(sid) ==
    /\ StoreFrame
    /\ dbSessions' = dbSessions \ {sid}
    /\ dbMessages' = DeleteCascade(dbMessages, sid)
    /\ dbUsage' = DeleteCascade(dbUsage, sid)
    /\ stLast' = StoreCall("delete", sid, FALSE,
                           (Len(dbMessages) - Len(dbMessages'))
                              + (Len(dbUsage) - Len(dbUsage')))

\* ConversationHistory.add on a history built for session sid.  The clock
\* runs up to MaxStoreRows + 1: only the order of the instants matters.
StAdd(sid, role, content) ==
    /\ StoreFrame
    /\ Len(dbMessages) < MaxStoreRows
    /\ Now(dbMessages, FALSE) <= MaxStoreRows + 1
    /\ IF ForeignKeyFails(sid, dbSessions)
       THEN /\ stLast' = StoreCall("add", sid, TRUE, 0)
            /\ UNCHANGED dbMessages
       ELSE /\ stLast' = StoreCall("add", sid, FALSE, 0)
            /\ dbMessages' = Append(dbMessages, MessageRow(sid, role, content, 0,
                                                           Now(dbMessages, FALSE)))
    /\ UNCHANGED <<dbSessions, dbUsage>>

\* ConversationHistory.clear(keep_system)
StClear(sid, keep_system) ==
    /\ StoreFrame
    /\ dbMessages' = SelectSeq(dbMessages,
                        LAMBDA r : \/ r.session_id # sid
                                   \/ (keep_system /\ r.role = "system"))
    /\ stLast' = StoreCall("clear", sid, FALSE, Len(dbMessages) - Len(dbMessages'))
    /\ UNCHANGED <<dbSessions, dbUsage>>

\* TokenTracker.record on a tracker built for session sid.
StRecord(sid, input, output) ==
    /\ StoreFrame
    /\ Len(dbUsage) < MaxStoreRows
    /\ IF ForeignKeyFails(sid, dbSessions)
       THEN /\ stLast' = StoreCall("record", sid, TRUE, 0)
            /\ UNCHANGED dbUsage
       ELSE /\ stLast' = StoreCall("record", sid, FALSE, 0)
            /\ dbUsage' = RecordRows(dbUsage, sid, input, output)
    /\ UNCHANGED <<dbSessions, dbMessages>>

StoreNext ==
    \/ \E sid \in SessionIds : StCreate(sid)
    \/ \E sid \in SessionIds : StLoad(sid)
    \/ \E sid \in SessionIds : StDelete(sid)
    \/ \E sid \in SessionIds, r \in StoreRoles : StAdd(sid, r, "hi")
    \/ \E sid \in SessionIds, k \in BOOLEAN : StClear(sid, k)
    \/ \E sid \in SessionIds, u \in Usages : StRecord(sid, u[1], u[2])

(***************************************************************************)
(* server/jsonrpc.py: JSONRPCServer.run and _handle for any input line.    *)
(* A line is a JSON object (a request, or a notification when it has no    *)
(* id), some other JSON value, text that is not JSON, or bytes that are    *)
(* not UTF-8.  Each line carries the serial number n it was written with,  *)
(* and each response the number of the line that caused it.                *)
(***************************************************************************)
MaxLines == 3

\* id = null, or no id member
NullId == -1

RequestIds == {NullId, 0, 1}

\* "ping" is registered, "nope" is not.
RpcMethods == {"ping", "nope"}

RegisteredMethods == {"ping"}

LineKinds == {"object", "other", "text", "bytes"}

InputLine(n, kind, id, method) == [n |-> n, kind |-> kind, id |-> id, method |-> method]

\* What the handler of a registered method does when it is awaited.
HandlerOutcomes == {"returns", "raises"}

\* Response.to_dict: `error` when there is one, else `result`.
ResponseToDict(n, id, code) ==
    [line |-> n, id |-> id, code |-> code, hasError |-> code # 0,
     hasResult |-> code = 0]

NoFrame == [line |-> 0, id |-> NullId, code |-> 0, hasError |-> FALSE,
            hasResult |-> FALSE]

\* A dispatcher that answers every frame.
RespondsAlways(id) == TRUE

\* A dispatcher that tests the id for truth instead of `is not None`.
RespondsTruthy(id) == id # NullId /\ id # 0

\* `request.id is not None`
RespondsTo(id) == id # NullId

\* JSONRPCServer._handle on the object `line`: the response, NoFrame for
\* None, and whether the handler was awaited.
Handle(line, outcome) ==
    IF line.method \notin RegisteredMethods
    THEN [ran |-> FALSE,
          response |-> IF RespondsTo(line.id)
                       THEN ResponseToDict(line.n, line.id, -32601) ELSE NoFrame]
    ELSE [ran |-> TRUE,
          response |->
             IF ~RespondsTo(line.id) THEN NoFrame
             ELSE IF outcome = "raises"
             THEN ResponseToDict(line.n, line.id, -32603)
             ELSE ResponseToDict(line.n, line.id, 0)]

\* One iteration of the loop of run on `line`: line.decode() raises
\* UnicodeDecodeError on bytes that are not UTF-8, json.loads raises
\* JSONDecodeError on text that is not JSON, Request.from_dict raises
\* AttributeError on a JSON value without .get; only JSONDecodeError is
\* answered with -32700, any other exception with -32603.
RunIteration(line, outcome) ==
    IF line.kind = "bytes"
    THEN [ran |-> FALSE, response |-> ResponseToDict(line.n, NullId, -32603)]
    ELSE IF line.kind = "text"
    THEN [ran |-> FALSE, response |-> ResponseToDict(line.n, NullId, -32700)]
    ELSE IF line.kind = "other"
    THEN [ran |-> FALSE, response |-> ResponseToDict(line.n, NullId, -32603)]
    ELSE Handle(line, outcome)

RpcInit ==
    /\ rpcIn = <<>>
    /\ rpcOut = <<>>
    /\ rpcRuns = <<>>
    /\ rpcSent = <<>>
    /\ rpcClosed = FALSE
    /\ rpcRunning = TRUE

\* The client writes a line.
RpcWrite(kind, id, method) ==
    /\ UNCHANGED exceptRpc
    /\ ~rpcClosed
    /\ Len(rpcSent) < MaxLines
    /\ (kind # "object" => id = NullId /\ method = "nope")
    /\ LET line == InputLine(Len(rpcSent) + 1, kind, id, method)
       IN /\ rpcIn' = Append(rpcIn, line)
          /\ rpcSent' = Append(rpcSent, line)
    /\ UNCHANGED <<rpcOut, rpcRuns, rpcClosed, rpcRunning>>

\* The client closes stdin.
RpcClose ==
    /\ UNCHANGED exceptRpc
    /\ ~rpcClosed
    /\ rpcClosed' = TRUE
    /\ UNCHANGED <<rpcIn, rpcOut, rpcRuns, rpcSent, rpcRunning>>

\* run reads one line, handles it and writes the response, if any.
RpcServe(outcome) ==
    /\ UNCHANGED exceptRpc
    /\ rpcRunning
    /\ rpcIn # <<>>
    /\ LET line == Head(rpcIn)
           done == RunIteration(line, outcome)
       IN /\ (~done.ran => outcome = "returns")
          /\ rpcIn' = Tail(rpcIn)
          /\ rpcRuns' = IF done.ran
                        THEN Append(rpcRuns, [line |-> line.n, outcome |-> outcome])
                        ELSE rpcRuns
          /\ rpcOut' = IF done.response # NoFrame
                       THEN Append(rpcOut, done.response)
                       ELSE rpcOut
    /\ UNCHANGED <<rpcSent, rpcClosed, rpcRunning>>

\* readline returns b"" at the end of input: `if not line: break`.
RpcEof ==
    /\ UNCHANGED exceptRpc
    /\ rpcRunning
    /\ rpcIn = <<>>
    /\ rpcClosed
    /\ rpcRunning' = FALSE
    /\ UNCHANGED <<rpcIn, rpcOut, rpcRuns, rpcSent, rpcClosed>>

RpcNext ==
    \/ \E k \in LineKinds, id \in RequestIds, m \in RpcMethods : RpcWrite(k, id, m)
    \/ RpcClose
    \/ \E o \in HandlerOutcomes : RpcServe(o)
    \/ RpcEof

(***************************************************************************)
(* core/tool_agent.py: the tool loop of a ToolAgent.  Two callers may each *)
(* run one call on the same agent; a call is suspended while it awaits the *)
(* model or a tool, and the other caller may run meanwhile.                *)
(***************************************************************************)
MaxIterations == 2

Callers == {"c1", "c2"}

\* The tool a model may ask for; it is registered when the registry is not
\* empty, and unknown to an empty registry.
ToolNames == {"noop"}

Registered == IF taToolPrompt = "" THEN {} ELSE {"noop"}

NoTool == ""

\* What the model answers: plain text, or the JSON object of a tool call.
ToolResponses ==
    {[text |-> "done", tool |-> NoTool]}
        \cup {[text |-> "{tool}", tool |-> t] : t \in ToolNames}

\* ToolAgent._parse_tool_call: the name of the tool the response asks for,
\* NoTool when the response holds no JSON object with a "tool" key.
ParseToolCall(response) == response.tool

\* ToolExecutor.execute: an unknown tool and a handler that raises both give
\* a failed result; output stays None.
Execute(tool, handlerRaises) ==
    IF tool \notin Registered
    THEN [tool |-> tool, success |-> FALSE, output |-> "None",
          error |-> "Unknown tool"]
    ELSE IF handlerRaises
    THEN [tool |-> tool, success |-> FALSE, output |-> "None", error |-> "boom"]
    ELSE [tool |-> tool, success |-> TRUE, output |-> "ok", error |-> "None"]

\* One piece of what a call returns or yields.
OutItem(kind, tool, value) == [kind |-> kind, tool |-> tool, value |-> value]

\* "I've used the maximum number of tool calls. ..." followed by one line
\* `- name: output` per executed call.
RECURSIVE SummaryLines(_, _)
SummaryLines(results, i) ==
    IF i > Len(results) THEN <<>>
    ELSE <<OutItem("entry", results[i].tool, results[i].output)>>
            \o SummaryLines(results, i + 1)

Summary(results) == <<OutItem("maximum", NoTool, "")>> \o SummaryLines(results, 1)

NoCall ==
    [pc |-> "idle", streaming |-> FALSE, message |-> "", original |-> "",
     iterations |-> 0, results |-> <<>>, tool |-> NoTool, output |-> <<>>,
     end |-> "", onlyCalls |-> TRUE]

\* A loop that runs one iteration too many.
LoopContinuesInclusive(iterations, max) == iterations <= max

\* `while iterations < self.tool_config.max_tool_iterations`
LoopContinues(iterations, max) == iterations < max

\* A `finally` that leaves the prompt as the call set it.
PromptKept(original, current) == current

\* `finally: self.config.system_prompt = original_system`
RestoredPrompt(original, current) == original

\* The loop is left at its bound: chat_with_tools returns the summary,
\* chat_stream_with_tools has nothing after its loop and just ends.
AtLimit(call) ==
    [call EXCEPT !.pc = "ended", !.end = "limit",
                 !.output = IF call.streaming THEN @ ELSE Summary(call.results)]

\* The head of the while loop: the next iteration awaits the model.
AtLoopHead(call) ==
    IF LoopContinues(call.iterations, taMax)
    THEN [call EXCEPT !.iterations = @ + 1, !.pc = "llm"]
    ELSE AtLimit(call)

\* The call becomes `next`; when that ends the call, its `finally` runs.
ToolStep(c, next) ==
    /\ taCalls' = [taCalls EXCEPT ![c] = next]
    /\ taPrompt' = IF next.pc = "ended"
                   THEN RestoredPrompt(taCalls[c].original, taPrompt)
                   ELSE taPrompt
    /\ UNCHANGED <<taToolPrompt, taMax>>

TaInit ==
    /\ taPrompt = "P"
    /\ taToolPrompt \in {"", "T"}
    /\ taMax \in 0..MaxIterations
    /\ taCalls = [c \in Callers |-> NoCall]

\* chat_with_tools / chat_stream_with_tools up to the first await: the tool
\* instructions are appended to the system prompt and the loop is entered.
ToolChatStart(c, streaming, message) ==
    /\ UNCHANGED exceptTa
    /\ taCalls[c].pc = "idle"
    /\ LET entered  == [NoCall EXCEPT !.streaming = streaming,
                                      !.message = message,
                                      !.original = taPrompt]
           appended == IF taToolPrompt # ""
                       THEN (taPrompt \o "\n") \o taToolPrompt
                       ELSE taPrompt
           next     == AtLoopHead(entered)
       IN /\ taCalls' = [taCalls EXCEPT ![c] = next]
          /\ taPrompt' = IF next.pc = "ended"
                         THEN RestoredPrompt(taPrompt, appended)
                         ELSE appended
    /\ UNCHANGED <<taToolPrompt, taMax>>

\* self.chat / self.chat_stream has produced the model's whole response.
ToolLLMAnswer(c, response) ==
    /\ UNCHANGED exceptTa
    /\ taCalls[c].pc = "llm"
    /\ LET call == taCalls[c]
           tool == ParseToolCall(response)
       IN IF tool = NoTool
          THEN \* the response is the answer (the stream yields it char by char)
               ToolStep(c, [call EXCEPT
                   !.pc = "ended", !.end = "final", !.onlyCalls = FALSE,
                   !.output = IF call.streaming
                              THEN Append(@, OutItem("text", NoTool, response.text))
                              ELSE <<OutItem("text", NoTool, response.text)>>])
          ELSE ToolStep(c, [call EXCEPT
                   !.pc = "tool", !.tool = tool,
                   !.output = IF call.streaming
                              THEN Append(@, OutItem("notice", tool, ""))
                              ELSE @])

\* self.chat / self.chat_stream raises.
ToolLLMRaises(c) ==
    /\ UNCHANGED exceptTa
    /\ taCalls[c].pc = "llm"
    /\ ToolStep(c, [taCalls[c] EXCEPT !.pc = "ended", !.end = "exception"])

\* self.executor.execute has returned a result.
ToolReturns(c, handlerRaises) ==
    /\ UNCHANGED exceptTa
    /\ taCalls[c].pc = "tool"
    /\ (handlerRaises => taCalls[c].tool \in Registered)
    /\ LET call   == taCalls[c]
           result == Execute(call.tool, handlerRaises)
           noted  == [call EXCEPT
                        !.results = Append(@, result),
                        !.message =
                            IF ~call.streaming /\ ~result.success
                            THEN (((@ \o "\n\nNote: Tool ") \o call.tool)
                                     \o " failed with: ") \o result.error
                            ELSE @,
                        !.output =
                            IF call.streaming
                            THEN Append(@, OutItem("status", call.tool,
                                     IF result.success THEN "ok" ELSE result.error))
                            ELSE @]
       IN ToolStep(c, AtLoopHead(noted))

\* self.executor.execute raises (a tool name the registry cannot look up).
ToolRaises(c) ==
    /\ UNCHANGED exceptTa
    /\ taCalls[c].pc = "tool"
    /\ ToolStep(c, [taCalls[c] EXCEPT !.pc = "ended", !.end = "exception"])

TaNext ==
    \/ \E c \in Callers, st \in BOOLEAN : ToolChatStart(c, st, "q")
    \/ \E c \in Callers, r \in ToolResponses : ToolLLMAnswer(c, r)
    \/ \E c \in Callers : ToolLLMRaises(c)
    \/ \E c \in Callers, hr \in BOOLEAN : ToolReturns(c, hr)
    \/ \E c \in Callers : ToolRaises(c)

(***************************************************************************)
(* One TokenTracker with a budget and subscribers (telemetry/tokens.py),   *)
(* on a session whose row exists.  Another tracker may record on the same  *)
(* session.                                                                *)
(***************************************************************************)
MaxListeners == 2

NoBudget == -1

Budgets == {NoBudget, 0, 4, 8}

Callbacks == {"f", "g"}

\* What a callback does with the usage: return, raise an Exception, or
\* call tracker.unsubscribe on itself and return.
Behaviours == {"returns", "raises", "unsubscribes"}

TrackerSession == "s1"

\* What a tracker method returns: None, an int, a float kept as the exact
\* quotient num/den, a bool; or the method raises.
NoneValue == [kind |-> "none", num |-> 0, den |-> 1]

IntValue(n) == [kind |-> "int", num |-> n, den |-> 1]

RatioValue(n, d) == [kind |-> "ratio", num |-> n, den |-> d]

BoolValue(b) == [kind |-> "bool", num |-> IF b THEN 1 ELSE 0, den |-> 1]

RaisedValue == [kind |-> "raises", num |-> 0, den |-> 1]

\* TokenTracker.get_budget_remaining
GetBudgetRemaining(budget, stats) ==
    IF budget = NoBudget THEN NoneValue
    ELSE IntValue(Max(0, budget - TotalTokens(stats)))

\* TokenTracker.get_budget_percentage:
\* min(100.0, (stats.total_tokens / self.budget) * 100); the division raises
\* ZeroDivisionError for a budget of 0.
GetBudgetPercentage(budget, stats) ==
    IF budget = NoBudget THEN NoneValue
    ELSE IF budget = 0 THEN RaisedValue
    ELSE IF TotalTokens(stats) * 100 >= 100 * budget THEN RatioValue(100, 1)
    ELSE RatioValue(TotalTokens(stats) * 100, budget)

\* TokenTracker.is_over_budget
IsOverBudget(budget, stats) ==
    LET remaining == GetBudgetRemaining(budget, stats)
    IN BoolValue(remaining.kind # "none" /\ remaining.num <= 0)

\* Does a budget method read the stats (and so fill the cache)?
ReadsStats(budget) == budget # NoBudget

\* TokenTracker.unsubscribe: list.remove drops the first occurrence.
Unsubscribe(listeners, callback) ==
    IF \E i \in 1..Len(listeners) : listeners[i] = callback
    THEN LET i == CHOOSE i \in 1..Len(listeners) :
                      /\ listeners[i] = callback
                      /\ \A j \in 1..(i - 1) : listeners[j] # callback
         IN SubSeq(listeners, 1, i - 1) \o SubSeq(listeners, i + 1, Len(listeners))
    ELSE listeners

NoCalls == [f \in Callbacks |-> 0]

\* TokenTracker._notify: `for listener in self._listeners` walks the list
\* itself by index, so a callback that changes the list changes the walk.
\* An Exception a callback raises is swallowed.
RECURSIVE Notify(_, _, _, _)
Notify(listeners, i, calls, behaviour) ==
    IF i > Len(listeners) THEN [listeners |-> listeners, calls |-> calls]
    ELSE LET f     == listeners[i]
             after == IF behaviour[f] = "unsubscribes"
                      THEN Unsubscribe(listeners, f)
                      ELSE listeners
         IN Notify(after, i + 1, [calls EXCEPT ![f] = @ + 1], behaviour)

\* The total of the session's rows in the table.
RecordedTotal(rows) == TotalTokens(QueryStats(rows, TrackerSession))

NoTrackerCall ==
    [op |-> "none", value |-> NoneValue, total |-> 0, registered |-> <<>>,
     calls |-> NoCalls, inserted |-> FALSE, raised |-> FALSE]

TkInit ==
    /\ tkBudget \in Budgets
    /\ tkRows = <<>>
    /\ tkCache = NoCache
    /\ tkListeners = <<>>
    /\ tkBehaviour \in [Callbacks -> Behaviours]
    /\ tkLast = NoTrackerCall

\* tracker.subscribe(callback)
TkSubscribe(callback) ==
    /\ UNCHANGED exceptTk
    /\ Len(tkListeners) < MaxListeners
    /\ tkListeners' = Append(tkListeners, callback)
    /\ tkLast' = [NoTrackerCall EXCEPT !.op = "subscribe"]
    /\ UNCHANGED <<tkBudget, tkRows, tkCache, tkBehaviour>>

\* tracker.unsubscribe(callback)
TkUnsubscribe(callback) ==
    /\ UNCHANGED exceptTk
    /\ tkListeners' = Unsubscribe(tkListeners, callback)
    /\ tkLast' = [NoTrackerCall EXCEPT !.op = "unsubscribe"]
    /\ UNCHANGED <<tkBudget, tkRows, tkCache, tkBehaviour>>

\* tracker.record(TokenUsage(input, output, model)): the insert, the cache
\* reset, then _notify.
TkRecord(input, output) ==
    LET rows1 == RecordRows(tkRows, TrackerSession, input, output)
        n     == Notify(tkListeners, 1, NoCalls, tkBehaviour)
    IN /\ UNCHANGED exceptTk
       /\ Len(tkRows) < MaxRows
       /\ tkRows' = rows1
       /\ tkCache' = CacheAfterRecord(tkCache)
       /\ tkListeners' = n.listeners
       /\ tkLast' = [NoTrackerCall EXCEPT !.op = "record",
                                          !.total = RecordedTotal(rows1),
                                          !.registered = tkListeners,
                                          !.calls = n.calls,
                                          !.inserted = Len(rows1) = Len(tkRows) + 1]
       /\ UNCHANGED <<tkBudget, tkBehaviour>>

\* record() of another TokenTracker on the same session: the row is
\* inserted, this tracker's cache is not touched.
TkRecordElsewhere(input, output) ==
    /\ UNCHANGED exceptTk
    /\ Len(tkRows) < MaxRows
    /\ tkRows' = RecordRows(tkRows, TrackerSession, input, output)
    /\ tkLast' = [NoTrackerCall EXCEPT !.op = "elsewhere"]
    /\ UNCHANGED <<tkBudget, tkCache, tkListeners, tkBehaviour>>

\* A budget method: it returns None before reading the stats when no budget
\* is set, otherwise get_session_stats fills the cache.
TkBudgetCall(op, value) ==
    LET stats == GetSessionStats(tkCache, tkRows, TrackerSession)
    IN /\ tkCache' = IF ReadsStats(tkBudget) THEN stats ELSE tkCache
       /\ tkLast' = [NoTrackerCall EXCEPT !.op = op,
                                          !.value = value,
                                          !.raised = value = RaisedValue,
                                          !.total = RecordedTotal(tkRows)]
       /\ UNCHANGED <<tkBudget, tkRows, tkListeners, tkBehaviour>>

\* tracker.get_budget_remaining()
TkGetBudgetRemaining ==
    /\ UNCHANGED exceptTk
    /\ TkBudgetCall("remaining",
                 GetBudgetRemaining(tkBudget,
                     GetSessionStats(tkCache, tkRows, TrackerSession)))

\* tracker.get_budget_percentage()
TkGetBudgetPercentage ==
    /\ UNCHANGED exceptTk
    /\ TkBudgetCall("percentage",
                 GetBudgetPercentage(tkBudget,
                     GetSessionStats(tkCache, tkRows, TrackerSession)))

\* tracker.is_over_budget()
TkIsOverBudget ==
    /\ UNCHANGED exceptTk
    /\ TkBudgetCall("over",
                 IsOverBudget(tkBudget,
                     GetSessionStats(tkCache, tkRows, TrackerSession)))

TkNext ==
    \/ \E f \in Callbacks : TkSubscribe(f)
    \/ \E f \in Callbacks : TkUnsubscribe(f)
    \/ \E u \in Usages : TkRecord(u[1], u[2])
    \/ TkRecordElsewhere(1, 2)
    \/ TkGetBudgetRemaining
    \/ TkGetBudgetPercentage
    \/ TkIsOverBudget

(***************************************************************************)
(* One ConversationHistory used directly (memory/conversation.py), whose   *)
(* adds may fall on the same instant of datetime.now(), and a              *)
(* ContextManager that builds windows from it (memory/context.py).         *)
(***************************************************************************)
MaxHistory == 3

HistoryRoles == {"user", "assistant", "system"}

HistorySystemTexts == {"", "abcd"}

HistoryRagTexts == {"", "abc"}

HistorySummaryTexts == {"", "abc"}

HistoryConfigs == {cfg \in Configs : cfg.max_rag_tokens = 3}

NoHistoryCall ==
    [op |-> "none", limit |-> 0, rows |-> <<>>, result |-> <<>>,
     args |-> NoArgs, max_tokens |-> 0, always |-> FALSE,
     window |-> EmptyWindow]

\* max_tokens arguments of build_simple (0: None, the default).
SimpleBudgets == {0, 1, 2}

\* `budget = max_tokens or self.config.available_for_context`
SimpleBudget(cfg, max_tokens) ==
    IF max_tokens = 0 THEN AvailableForContext(cfg) ELSE max_tokens

\* The loop of build_simple over reversed(messages), at messages[i]: a
\* message that fits is kept, a system message is kept under
\* always_include_system, anything else ends the loop.
RECURSIVE SimpleLoop(_, _, _, _, _)
SimpleLoop(messages, i, budget, always, acc) ==
    IF i = 0 THEN acc
    ELSE LET msg  == messages[i]
             kept == [msgs  |-> <<LLMMsg(msg.role, msg.content)>> \o acc.msgs,
                      total |-> acc.total + MsgTokens(msg)]
         IN IF acc.total + MsgTokens(msg) <= budget
            THEN SimpleLoop(messages, i - 1, budget, always, kept)
            ELSE IF msg.role = "system" /\ always
            THEN SimpleLoop(messages, i - 1, budget, always, kept)
            ELSE acc

\* ContextManager.build_simple
BuildSimple(cfg, always, messages, max_tokens) ==
    LET r == SimpleLoop(messages, Len(messages), SimpleBudget(cfg, max_tokens),
                        always, [msgs |-> <<>>, total |-> 0])
    IN [EmptyWindow EXCEPT !.messages = r.msgs,
                           !.total_tokens = r.total,
                           !.included_message_count = Len(r.msgs),
                           !.truncated = Len(r.msgs) < Len(messages)]

HsInit ==
    /\ hsRows = <<>>
    /\ hsNextId = 1
    /\ hsLast = NoHistoryCall

\* history.add(role, "abc")
HsAdd(role, tied) ==
    /\ UNCHANGED exceptHs
    /\ Len(hsRows) < MaxHistory
    /\ hsNextId <= MaxHistory
    /\ (hsRows = <<>> => ~tied)
    /\ hsRows' = Append(hsRows, [id |-> hsNextId, role |-> role, content |-> "abc",
                                 token_count |-> 0,
                                 created_at |-> Now(hsRows, tied)])
    /\ hsNextId' = hsNextId + 1
    /\ hsLast' = [NoHistoryCall EXCEPT !.op = "add"]

\* history.clear(keep_system)
HsClear(keep_system) ==
    /\ UNCHANGED exceptHs
    /\ hsRows' = SelectSeq(hsRows, LAMBDA r : keep_system /\ r.role = "system")
    /\ hsLast' = [NoHistoryCall EXCEPT !.op = "clear"]
    /\ UNCHANGED hsNextId

\* history.get_all()
HsGetAll ==
    /\ UNCHANGED exceptHs
    /\ hsLast' = [NoHistoryCall EXCEPT !.op = "get_all", !.rows = hsRows,
                                       !.result = GetAll(hsRows)]
    /\ UNCHANGED <<hsRows, hsNextId>>

\* history.get_recent(limit)
HsGetRecent(limit) ==
    /\ UNCHANGED exceptHs
    /\ hsLast' = [NoHistoryCall EXCEPT !.op = "get_recent", !.limit = limit,
                                       !.rows = hsRows,
                                       !.result = GetRecent(hsRows, limit)]
    /\ UNCHANGED <<hsRows, hsNextId>>

\* ContextManager(cfg).build(history, "abc", system_prompt, rag_context),
\* with `summary` in the manager's summary cache.
HsBuild(cfg, system_prompt, rag_context, summary) ==
    /\ UNCHANGED exceptHs
    /\ hsLast' = [NoHistoryCall EXCEPT
                    !.op = "build", !.rows = hsRows,
                    !.args = [user_message |-> "abc",
                              system_prompt |-> system_prompt,
                              rag_context |-> rag_context, history |-> hsRows,
                              summary |-> summary],
                    !.window = Build(cfg, hsRows, "abc", system_prompt,
                                     rag_context, summary)]
    /\ UNCHANGED <<hsRows, hsNextId>>

\* ContextManager(config).build_simple(history.get_all(), max_tokens), the
\* config being the default one but for always_include_system.
HsBuildSimple(always, max_tokens) ==
    /\ UNCHANGED exceptHs
    /\ hsLast' = [NoHistoryCall EXCEPT
                    !.op = "build_simple", !.rows = hsRows,
                    !.result = GetAll(hsRows),
                    !.max_tokens = max_tokens, !.always = always,
                    !.window = BuildSimple(DefaultContextConfig, always,
                                           GetAll(hsRows), max_tokens)]
    /\ UNCHANGED <<hsRows, hsNextId>>

HsNext ==
    \/ \E r \in HistoryRoles, tied \in BOOLEAN : HsAdd(r, tied)
    \/ \E k \in BOOLEAN : HsClear(k)
    \/ HsGetAll
    \/ \E n \in 1..MaxHistory : HsGetRecent(n)
    \/ \E cfg \in HistoryConfigs, s \in HistorySystemTexts, r \in HistoryRagTexts,
          m \in HistorySummaryTexts : HsBuild(cfg, s, r, m)
    \/ \E always \in BOOLEAN, b \in SimpleBudgets : HsBuildSimple(always, b)

(***************************************************************************)
(* The retrieval side of the handlers (server/handlers.py, rag/store.py,   *)
(* rag/query.py): the store and query handle of create_handlers, the       *)
(* collection switch, and the session, rag.* and codebase.init handlers as *)
(* far as they touch it.  A session is named by the codebase path it is    *)
(* bound to.                                                               *)
(***************************************************************************)
MaxRagCalls == 3

Paths == {"P1", "P2"}

NoPath == "none"

DefaultCollection == "codebase_specs"

\* get_collection_name_for_path: one name per absolute path.
CollectionName(path) == "codebase_" \o path

CollectionNames == {DefaultCollection} \cup {CollectionName(p) : p \in Paths}

\* A collection object obtained from the client: it is good for as long as
\* the collection of that name has not been deleted.
GetOrCreateCollection(db, name) == [name |-> name, gen |-> db[name].gen]

NoHandle == [name |-> "none", gen |-> 0]

NoStore == [obj |-> 0, collection |-> NoHandle]

NoQuery == [store |-> 0, own |-> NoHandle]

\* RAGStore(db_path, collection_name): get_or_create_collection
RAGStore(db, obj, name) == [obj |-> obj, collection |-> GetOrCreateCollection(db, name)]

\* RAGQuery(store=store)
RAGQuery(store) == [store |-> store.obj, own |-> store.collection]

\* A query handle that keeps the collection it saw when it was built.
QueryCollectionCached(query, store) == query.own

\* RAGQuery._collection: the store's collection, read at each use.
QueryCollection(query, store) == store.collection

\* What a read of a collection object gives: its chunks, or an error once
\* the collection it stood for is deleted.
Stale(db, handle) == db[handle.name].gen # handle.gen

Read(db, handle) == IF Stale(db, handle) THEN {} ELSE db[handle.name].chunks

\* RAGStore.clear: delete_collection, then get_or_create_collection
ClearDb(db, name) == [db EXCEPT ![name] = [gen |-> @.gen + 1, chunks |-> {}]]

\* RAGStore.add_batch
AddDb(db, name, chunk) == [db EXCEPT ![name].chunks = @ \cup {chunk}]

\* Handlers._switch_rag_collection(path): the handlers' store, query handle
\* and active path afterwards.  Nothing changes when the path is the active
\* one, or when RAGStore raises (`fails`).
SwitchKeeps(active, path, fails) == active = path \/ fails

SwitchRagCollection(path, fails, obj) ==
    IF SwitchKeeps(rgPath, path, fails)
    THEN [store |-> rgStore, query |-> rgQuery, path |-> rgPath]
    ELSE LET store == RAGStore(rgDb, obj, CollectionName(path))
         IN [store |-> store, query |-> RAGQuery(store), path |-> path]

\* The lines of standard output, by who wrote them: JSONRPCServer._write and
\* notify_sync write one JSON document and a line end; print writes text.
ResponseLine == [by |-> "JSONRPCServer", frame |-> TRUE, text |-> "response"]

ReadyLine == [by |-> "JSONRPCServer", frame |-> TRUE, text |-> "server.ready"]

WarningLine == [by |-> "print", frame |-> FALSE, text |-> "Warning"]

\* What _switch_rag_collection prints: the warning of its except branch.
SwitchPrints(path, fails) ==
    IF ~(rgPath = path) /\ fails THEN <<WarningLine>> ELSE <<>>

\* JSONRPCServer.run: the handler runs, then _write sends its response
\* through the pipe writer; what the handler printed stays in the buffer
\* of sys.stdout.
WriteResponse(printed) ==
    /\ rgStdout' = Append(rgStdout, ResponseLine)
    /\ rgBuffer' = rgBuffer \o printed

\* What the agent's intent router does with a message.
RouterOutcomes == {"refined", "empty", "raises"}

ChatMessage == "how does it work"

RefinedQuery == "refined query"

NoIntent == [kind |-> "none", query |-> ""]

RaisedIntent == [kind |-> "raised", query |-> ""]

\* Agent.get_intent: None without a router, else what IntentRouter.route
\* returns or raises.
GetIntent(agentKind, outcome) ==
    IF agentKind # "router" THEN NoIntent
    ELSE IF outcome = "raises" THEN RaisedIntent
    ELSE [kind |-> "intent",
          query |-> IF outcome = "refined" THEN RefinedQuery ELSE ""]

\* query = intent.query if intent else message
RetrievalQuery(intent, message) ==
    IF intent # NoIntent THEN intent.query ELSE message

NoRagCall ==
    [op |-> "none", current |-> NoPath, failed |-> FALSE, results |-> {},
     expected |-> {}, noop |-> FALSE, message |-> "", extractor |-> "none",
     retrieves |-> FALSE, query |-> "", proceeds |-> FALSE]

\* create_handlers: the store on the default collection and a query handle
\* on that store, or neither when Chroma cannot be opened.
RgInit ==
    /\ rgDb = [name \in CollectionNames |-> [gen |-> 0, chunks |-> {}]]
    /\ \/ /\ rgStore = RAGStore(rgDb, 1, DefaultCollection)
          /\ rgQuery = RAGQuery(rgStore)
          /\ rgStdout = <<ReadyLine>>
       \/ /\ rgStore = NoStore
          /\ rgQuery = NoQuery
          /\ rgStdout = <<WarningLine, ReadyLine>>
    /\ rgBuffer = <<>>
    /\ rgPath = NoPath
    /\ rgSessions = {}
    /\ rgCurrent = NoPath
    /\ rgAgent \in {"none", "router"}
    /\ rgCalls = 0
    /\ rgIngested = {}
    /\ rgCleared = [name \in CollectionNames |-> 0]
    /\ rgLast = NoRagCall

\* The serial of the request being served; it also names the new store
\* object and the chunk the request ingests.
Serial == rgCalls + 1

\* The session handlers set the current session and, `if codebase_path`,
\* switch the collection; path = NoPath is a session without codebase path.
EnterSession(op, path, fails) ==
    LET sw == IF path = NoPath
              THEN [store |-> rgStore, query |-> rgQuery, path |-> rgPath]
              ELSE SwitchRagCollection(path, fails, Serial + 1)
    IN /\ rgCalls < MaxRagCalls
       /\ rgCalls' = Serial
       /\ rgCurrent' = path
       /\ rgAgent' = "plain"
       /\ rgStore' = sw.store
       /\ rgQuery' = sw.query
       /\ rgPath' = sw.path
       /\ rgLast' = [NoRagCall EXCEPT !.op = op, !.current = path,
                                      !.noop = rgPath = path]
       /\ WriteResponse(IF path = NoPath THEN <<>> ELSE SwitchPrints(path, fails))
       /\ UNCHANGED <<rgDb, rgIngested, rgCleared>>

\* Handlers.session_create with codebase_path = path
RgSessionCreate(path, fails) ==
    /\ UNCHANGED exceptRg
    /\ rgSessions' = rgSessions \cup {path}
    /\ EnterSession("session.create", path, fails)

\* Handlers.session_load of the session bound to path
RgSessionLoad(path, fails) ==
    /\ UNCHANGED exceptRg
    /\ path \in rgSessions
    /\ UNCHANGED rgSessions
    /\ EnterSession("session.load", path, fails)

\* Handlers.rag_ingest with one chunk
RgIngest ==
    /\ UNCHANGED exceptRg
    /\ rgCalls < MaxRagCalls
    /\ rgCalls' = Serial
    /\ IF rgStore = NoStore
       THEN /\ rgLast' = [NoRagCall EXCEPT !.op = "rag.ingest", !.failed = TRUE,
                                           !.current = rgCurrent]
            /\ UNCHANGED <<rgDb, rgIngested>>
       ELSE LET name  == rgStore.collection.name
                chunk == [n |-> Serial, under |-> rgPath, name |-> name]
            IN /\ rgDb' = AddDb(rgDb, name, chunk)
               /\ rgIngested' = rgIngested \cup {chunk}
               /\ rgLast' = [NoRagCall EXCEPT !.op = "rag.ingest",
                                              !.current = rgCurrent]
    /\ WriteResponse(<<>>)
    /\ UNCHANGED <<rgStore, rgQuery, rgPath, rgSessions, rgCurrent, rgAgent,
                   rgCleared>>

\* Handlers.codebase_init on an existing directory: `path` is the request's
\* path, or NoPath for the current session's; the scan yields one chunk.
RgCodebaseInit(path, clear, fails) ==
    LET target == IF path # NoPath THEN path ELSE rgCurrent
        sw     == SwitchRagCollection(target, fails, Serial + 1)
        name   == sw.store.collection.name
        chunk  == [n |-> Serial, under |-> sw.path, name |-> name]
        db1    == IF clear THEN ClearDb(rgDb, name) ELSE rgDb
        store1 == [sw.store EXCEPT !.collection = GetOrCreateCollection(db1, name)]
    IN /\ UNCHANGED exceptRg
       /\ rgCalls < MaxRagCalls
       /\ rgCalls' = Serial
       /\ IF target = NoPath
          THEN /\ rgLast' = [NoRagCall EXCEPT !.op = "codebase.init",
                                              !.failed = TRUE,
                                              !.current = rgCurrent]
               /\ UNCHANGED <<rgDb, rgStore, rgQuery, rgPath, rgIngested,
                              rgCleared>>
          ELSE IF sw.store = NoStore
          THEN /\ rgLast' = [NoRagCall EXCEPT !.op = "codebase.init",
                                              !.failed = TRUE,
                                              !.current = rgCurrent]
               /\ rgPath' = sw.path
               /\ UNCHANGED <<rgDb, rgStore, rgQuery, rgIngested, rgCleared>>
          ELSE /\ rgStore' = store1
               /\ rgQuery' = sw.query
               /\ rgPath' = sw.path
               /\ rgDb' = AddDb(db1, name, chunk)
               /\ rgIngested' = rgIngested \cup {chunk}
               /\ rgCleared' = IF clear THEN [rgCleared EXCEPT ![name] = Serial]
                               ELSE rgCleared
               /\ rgLast' = [NoRagCall EXCEPT !.op = "codebase.init",
                                              !.current = rgCurrent,
                                              !.noop = rgPath = target]
       /\ WriteResponse(IF target = NoPath THEN <<>> ELSE SwitchPrints(target, fails))
       /\ UNCHANGED <<rgSessions, rgCurrent, rgAgent>>

\* Handlers.rag_search
RgSearch ==
    /\ UNCHANGED exceptRg
    /\ rgCalls < MaxRagCalls
    /\ rgCalls' = Serial
    /\ IF rgQuery = NoQuery
       THEN rgLast' = [NoRagCall EXCEPT !.op = "rag.search", !.failed = TRUE,
                                       !.current = rgCurrent]
       ELSE LET handle == QueryCollection(rgQuery, rgStore)
            IN rgLast' = [NoRagCall EXCEPT
                            !.op = "rag.search", !.current = rgCurrent,
                            !.failed = Stale(rgDb, handle),
                            !.results = Read(rgDb, handle),
                            !.expected =
                                {c \in rgIngested :
                                    /\ c.name = rgStore.collection.name
                                    /\ c.n >= rgCleared[c.name]}]
    /\ WriteResponse(<<>>)
    /\ UNCHANGED <<rgDb, rgStore, rgQuery, rgPath, rgSessions, rgCurrent,
                   rgAgent, rgIngested, rgCleared>>

\* Handlers.chat_send up to the LLM call: the retrieval query and whether
\* the turn goes on to the agent.  The rest of the handler is ChatSendStart.
RgChatSend(use_rag, outcome) ==
    LET intent == GetIntent(rgAgent, outcome)
        call   == [NoRagCall EXCEPT !.op = "chat.send", !.current = rgCurrent,
                                    !.message = ChatMessage]
    IN /\ UNCHANGED exceptRg
       /\ rgCalls < MaxRagCalls
       /\ rgCalls' = Serial
       /\ IF rgAgent = "none"
          THEN rgLast' = [call EXCEPT !.failed = TRUE]
          ELSE IF ~(use_rag /\ rgQuery # NoQuery)
          THEN rgLast' = [call EXCEPT !.proceeds = TRUE]
          ELSE IF intent = RaisedIntent
          THEN rgLast' = [call EXCEPT !.retrieves = TRUE, !.failed = TRUE,
                                      !.extractor = outcome]
          ELSE LET query  == RetrievalQuery(intent, ChatMessage)
                   handle == QueryCollection(rgQuery, rgStore)
               IN rgLast' = [call EXCEPT
                               !.retrieves = TRUE,
                               !.extractor = IF intent = NoIntent THEN "none"
                                             ELSE outcome,
                               !.query = query,
                               !.failed = Stale(rgDb, handle),
                               !.results = Read(rgDb, handle),
                               !.proceeds = ~Stale(rgDb, handle)]
       /\ WriteResponse(<<>>)
       /\ UNCHANGED <<rgDb, rgStore, rgQuery, rgPath, rgSessions, rgCurrent,
                      rgAgent, rgIngested, rgCleared>>

\* sys.stdout writes out its buffer: when it fills up, or when the
\* interpreter exits.
RgFlush ==
    /\ UNCHANGED exceptRg
    /\ rgBuffer # <<>>
    /\ rgStdout' = rgStdout \o rgBuffer
    /\ rgBuffer' = <<>>
    /\ UNCHANGED <<rgDb, rgStore, rgQuery, rgPath, rgSessions, rgCurrent,
                   rgAgent, rgCalls, rgIngested, rgCleared, rgLast>>

RgNext ==
    \/ \E p \in Paths \cup {NoPath}, f \in BOOLEAN : RgSessionCreate(p, f)
    \/ \E p \in Paths \cup {NoPath}, f \in BOOLEAN : RgSessionLoad(p, f)
    \/ RgIngest
    \/ \E p \in Paths \cup {NoPath}, c \in BOOLEAN, f \in BOOLEAN :
          RgCodebaseInit(p, c, f)
    \/ RgSearch
    \/ \E u \in BOOLEAN, o \in RouterOutcomes : RgChatSend(u, o)
    \/ RgFlush

(***************************************************************************)
(* Connections to tool servers (tools/mcp.py, MCPServer): requests with    *)
(* their ids and waiters, the subprocess's output and the read loop.       *)
(***************************************************************************)
MaxMcRequests == 2

MaxMcLines == 1

McServers == {"a", "b"}

McIds == 1..MaxMcRequests

\* The lines a subprocess writes: a response with a result, a response with
\* an error object, or something that is not JSON.  The end of the output
\* is read as an empty line.
ResultLine(id) == [kind |-> "result", id |-> id]

ErrorLine(id) == [kind |-> "error", id |-> id]

MalformedLine == [kind |-> "malformed", id |-> 0]

EofLine == [kind |-> "eof", id |-> 0]

\* A readline call that raises.
ReadError == [kind |-> "raises", id |-> 0]

\* Ids a subprocess may answer: those of the requests sent, and one more.
WrittenLines(request_id) ==
    {ResultLine(i) : i \in 1..(request_id + 1)}
        \cup {ErrorLine(i) : i \in 1..(request_id + 1)}
        \cup {MalformedLine}

\* `if "id" in data and data["id"] in self._pending`
Matches(pending, line) ==
    line.kind \in {"result", "error"} /\ line.id \in pending

\* A reader that resolves every waiter with the frame's result member.
FutureAfterResultOnly(future, line) ==
    IF future = "waiting" THEN "result" ELSE future

\* future.set_exception(...) for a frame with an error, else
\* future.set_result(...); on a future that is done already both raise
\* InvalidStateError, which the loop swallows.
FutureAfter(future, line) ==
    IF future # "waiting" THEN future
    ELSE IF line.kind = "error" THEN "exception" ELSE "result"

\* The requests of a connection that have finished, however they did.
Finished(req) == {i \in McIds : req[i] \in {"returned", "raised", "timeout", "unsent"}}

\* MCPServer.__init__ and start, after the handshake.
McInit ==
    /\ mcRequestId = [s \in McServers |-> 0]
    /\ mcPending = [s \in McServers |-> {}]
    /\ mcReq = [s \in McServers |-> [i \in McIds |-> "none"]]
    /\ mcPipe = [s \in McServers |-> <<>>]
    /\ mcReader = [s \in McServers |-> "running"]
    /\ mcProcess = [s \in McServers |-> "running"]
    /\ mcLines = 0

\* How many requests all connections have issued.
RECURSIVE McIssued(_, _)
McIssued(request_id, servers) ==
    IF servers = {} THEN 0
    ELSE LET s == CHOOSE x \in servers : TRUE
         IN request_id[s] + McIssued(request_id, servers \ {s})

\* MCPServer._request up to the await: the id, the future in the pending
\* table, the write.  Writing to a subprocess that has exited raises
\* BrokenPipeError, before the try block whose finally frees the slot.
McRequest(s) ==
    LET id == mcRequestId[s] + 1
    IN /\ UNCHANGED exceptMc
       /\ McIssued(mcRequestId, McServers) < MaxMcRequests
       /\ mcRequestId' = [mcRequestId EXCEPT ![s] = id]
       /\ mcPending' = [mcPending EXCEPT ![s] = @ \cup {id}]
       /\ mcReq' = [mcReq EXCEPT ![s][id] =
                        IF mcProcess[s] = "exited" THEN "unsent" ELSE "waiting"]
       /\ UNCHANGED <<mcPipe, mcReader, mcProcess, mcLines>>

\* The subprocess writes a line.
McServerWrites(s, line) ==
    /\ UNCHANGED exceptMc
    /\ mcProcess[s] = "running"
    /\ mcLines < MaxMcLines
    /\ line \in WrittenLines(mcRequestId[s])
    /\ mcLines' = mcLines + 1
    /\ mcPipe' = [mcPipe EXCEPT ![s] = Append(@, line)]
    /\ UNCHANGED <<mcRequestId, mcPending, mcReq, mcReader, mcProcess>>

\* The subprocess exits: its output ends.
McProcessExits(s) ==
    /\ UNCHANGED exceptMc
    /\ mcProcess[s] = "running"
    /\ mcProcess' = [mcProcess EXCEPT ![s] = "exited"]
    /\ mcPipe' = [mcPipe EXCEPT ![s] = Append(@, EofLine)]
    /\ UNCHANGED <<mcRequestId, mcPending, mcReq, mcReader, mcLines>>

\* One pass of MCPServer._read_responses: an empty line ends the loop; a
\* line that is not JSON and a readline that raises both end in `except
\* Exception: continue`.
McReadLine(s) ==
    /\ UNCHANGED exceptMc
    /\ mcReader[s] = "running"
    /\ mcPipe[s] # <<>>
    /\ LET line == Head(mcPipe[s])
       IN /\ mcPipe' = [mcPipe EXCEPT ![s] = Tail(@)]
          /\ mcReader' = [mcReader EXCEPT ![s] =
                             IF line = EofLine THEN "stopped" ELSE @]
          /\ mcReq' = IF Matches(mcPending[s], line)
                      THEN [mcReq EXCEPT ![s][line.id] = FutureAfter(@, line)]
                      ELSE mcReq
    /\ UNCHANGED <<mcRequestId, mcPending, mcProcess, mcLines>>

\* The output of the subprocess becomes unreadable: the next readline
\* raises.
McReadFails(s) ==
    /\ UNCHANGED exceptMc
    /\ mcLines < MaxMcLines
    /\ mcLines' = mcLines + 1
    /\ mcPipe' = [mcPipe EXCEPT ![s] = Append(@, ReadError)]
    /\ UNCHANGED <<mcRequestId, mcPending, mcReq, mcReader, mcProcess>>

\* The waiter of a resolved future resumes: _request returns or raises, its
\* finally frees the slot.
McResume(s, id) ==
    /\ UNCHANGED exceptMc
    /\ mcReq[s][id] \in {"result", "exception"}
    /\ mcReq' = [mcReq EXCEPT ![s][id] =
                    IF @ = "result" THEN "returned" ELSE "raised"]
    /\ mcPending' = [mcPending EXCEPT ![s] = @ \ {id}]
    /\ UNCHANGED <<mcRequestId, mcPipe, mcReader, mcProcess, mcLines>>

\* The deadline of wait_for passes: the future is cancelled, _request
\* raises TimeoutError, its finally frees the slot.
McTimeout(s, id) ==
    /\ UNCHANGED exceptMc
    /\ mcReq[s][id] = "waiting"
    /\ mcReq' = [mcReq EXCEPT ![s][id] = "timeout"]
    /\ mcPending' = [mcPending EXCEPT ![s] = @ \ {id}]
    /\ UNCHANGED <<mcRequestId, mcPipe, mcReader, mcProcess, mcLines>>

McNext ==
    \/ \E s \in McServers : McRequest(s)
    \/ \E s \in McServers, id \in 1..(MaxMcRequests + 1) :
          \/ McServerWrites(s, ResultLine(id))
          \/ McServerWrites(s, ErrorLine(id))
    \/ \E s \in McServers : McServerWrites(s, MalformedLine)
    \/ \E s \in McServers : McProcessExits(s)
    \/ \E s \in McServers : McReadLine(s)
    \/ \E s \in McServers : McReadFails(s)
    \/ \E s \in McServers, id \in McIds : McResume(s, id)
    \/ \E s \in McServers, id \in McIds : McTimeout(s, id)

(***************************************************************************)
(* tools/mcp.py, MCPHost: the registry of tool servers and of the tools     *)
(* they offer.                                                             *)
(***************************************************************************)
\* The tool names a server may report in its tools/list answer.
McToolNames == {"t", "u"}

\* self._tools.get(name) finds nothing.
NoServer == "none"

NoHostCall == [op |-> "none", name |-> "", server |-> NoServer, error |-> ""]

\* MCPHost.__init__
MhInit ==
    /\ mhServers = {}
    /\ mhOffers = [s \in McServers |-> {}]
    /\ mhTools = [n \in McToolNames |-> NoServer]
    /\ mhLast = NoHostCall

\* remove_server: self._tools without the entries whose server_name is name
ToolsWithout(tools, name) ==
    [n \in McToolNames |-> IF tools[n] = name THEN NoServer ELSE tools[n]]

\* MCPHost.add_server: start the server (which asks it for its tools), put it
\* in _servers under its name and put each of its tools in _tools under the
\* tool's name.  When start raises nothing is registered.
AddServer(name, offers, startRaises) ==
    /\ UNCHANGED exceptMh
    /\ mhLast' = [NoHostCall EXCEPT !.op = "add_server", !.server = name,
                     !.error = IF startRaises THEN "raised" ELSE ""]
    /\ IF startRaises
       THEN UNCHANGED <<mhServers, mhOffers, mhTools>>
       ELSE /\ mhServers' = mhServers \cup {name}
            /\ mhOffers' = [mhOffers EXCEPT ![name] = offers]
            /\ mhTools' = [n \in McToolNames |->
                              IF n \in offers THEN name ELSE mhTools[n]]

\* MCPHost.remove_server
RemoveServer(name) ==
    /\ UNCHANGED exceptMh
    /\ mhLast' = [NoHostCall EXCEPT !.op = "remove_server", !.server = name]
    /\ IF name \in mhServers
       THEN /\ mhTools' = ToolsWithout(mhTools, name)
            /\ mhServers' = mhServers \ {name}
            /\ mhOffers' = [mhOffers EXCEPT ![name] = {}]
       ELSE UNCHANGED <<mhServers, mhOffers, mhTools>>

\* MCPHost.shutdown
Shutdown ==
    /\ UNCHANGED exceptMh
    /\ mhLast' = [NoHostCall EXCEPT !.op = "shutdown"]
    /\ mhServers' = {}
    /\ mhOffers' = [s \in McServers |-> {}]
    /\ mhTools' = [n \in McToolNames |-> NoServer]

\* MCPHost.call_tool up to server.call_tool: where the call is sent, or the
\* error it is answered with.
CallTool(name) ==
    /\ UNCHANGED exceptMh
    /\ mhLast' =
         IF mhTools[name] = NoServer
         THEN [NoHostCall EXCEPT !.op = "call_tool", !.name = name,
                                 !.error = "Unknown tool"]
         ELSE IF mhTools[name] \notin mhServers
         THEN [NoHostCall EXCEPT !.op = "call_tool", !.name = name,
                                 !.error = "Server not found"]
         ELSE [NoHostCall EXCEPT !.op = "call_tool", !.name = name,
                                 !.server = mhTools[name]]
    /\ UNCHANGED <<mhServers, mhOffers, mhTools>>

MhNext ==
    \/ \E s \in McServers, o \in SUBSET McToolNames, r \in BOOLEAN :
          AddServer(s, o, r)
    \/ \E s \in McServers : RemoveServer(s)
    \/ Shutdown
    \/ \E n \in McToolNames : CallTool(n)

(***************************************************************************)
(* Specifications.  Each one runs one part of the program and leaves the   *)
(* state of the others at its initial value.                               *)
(***************************************************************************)
vars == <<cmVars, lgVars, srvVars, taVars, stVars, rpcVars, tkVars, hsVars, rgVars, mcVars, mhVars>>

CmIdle ==
    /\ cmConfig = [max_tokens |-> 4, reserved_for_response |-> 1,
                   recent_messages |-> 1, summarize_after |-> 1,
                   max_rag_tokens |-> 1]
    /\ cmSummary = ""
    /\ cmLog = <<>>
    /\ cmArgs = NoArgs
    /\ cmWindow = EmptyWindow
    /\ cmBuilt = FALSE

LgIdle ==
    /\ lgRows = <<>>
    /\ lgSession = [t \in Trackers |-> "s1"]
    /\ lgCache = [t \in Trackers |-> NoCache]
    /\ lgReturned = [t \in Trackers |-> NoCache]
    /\ lgRecorded = [s \in SessionIds |-> NoTotals]
    /\ lgLast = [op |-> "none", tracker |-> "t1"]

SrvIdle ==
    /\ hasNotify = FALSE
    /\ hasRag = FALSE
    /\ envOk = FALSE
    /\ dbSessions = {}
    /\ agent = NoAgent
    /\ dbMessages = <<>>
    /\ dbUsage = <<>>
    /\ currentSession = NoSession
    /\ inbox = <<>>
    /\ outbox = <<>>
    /\ nextId = 1
    /\ pc = "idle"
    /\ turn = NoTurn
    /\ turnLog = <<>>
    /\ completed = [s \in SessionIds |-> NoTotals]

TaIdle ==
    /\ taPrompt = "P"
    /\ taToolPrompt = ""
    /\ taMax = 0
    /\ taCalls = [c \in Callers |-> NoCall]

StIdle == stLast = NoStoreCall

RpcIdle == RpcInit

TkIdle ==
    /\ tkBudget = NoBudget
    /\ tkRows = <<>>
    /\ tkCache = NoCache
    /\ tkListeners = <<>>
    /\ tkBehaviour = [f \in Callbacks |-> "returns"]
    /\ tkLast = NoTrackerCall

HsIdle == HsInit

McIdle == McInit

MhIdle == MhInit

RgIdle ==
    /\ rgDb = [name \in CollectionNames |-> [gen |-> 0, chunks |-> {}]]
    /\ rgStore = NoStore
    /\ rgQuery = NoQuery
    /\ rgPath = NoPath
    /\ rgSessions = {}
    /\ rgCurrent = NoPath
    /\ rgAgent = "none"
    /\ rgCalls = 0
    /\ rgIngested = {}
    /\ rgCleared = [name \in CollectionNames |-> 0]
    /\ rgLast = NoRagCall
    /\ rgStdout = <<>>
    /\ rgBuffer = <<>>

\* One tracker with a budget and subscribers.
TrackerInit == TkInit /\ CmIdle /\ LgIdle /\ SrvIdle /\ TaIdle /\ StIdle /\ RpcIdle /\ HsIdle /\ RgIdle /\ McIdle /\ MhIdle

TrackerNext == TkNext

SpecTracker == TrackerInit /\ [][TrackerNext]_vars

\* One conversation history and the windows built from it.
HistoryInit == HsInit /\ CmIdle /\ LgIdle /\ SrvIdle /\ TaIdle /\ StIdle /\ RpcIdle /\ TkIdle /\ RgIdle /\ McIdle /\ MhIdle

HistoryNext == HsNext

SpecHistory == HistoryInit /\ [][HistoryNext]_vars

\* The connections to tool servers.
McpInit == McInit /\ CmIdle /\ LgIdle /\ SrvIdle /\ TaIdle /\ StIdle /\ RpcIdle /\ TkIdle /\ HsIdle /\ RgIdle /\ MhIdle

McpNext == McNext

SpecMcp == McpInit /\ [][McpNext]_vars

\* The registry of tool servers.
HostInit == MhInit /\ CmIdle /\ LgIdle /\ SrvIdle /\ TaIdle /\ StIdle /\ RpcIdle /\ TkIdle /\ HsIdle /\ RgIdle /\ McIdle

HostNext == MhNext

SpecHost == HostInit /\ [][HostNext]_vars

\* The retrieval side of the handlers.
RagInit == RgInit /\ CmIdle /\ LgIdle /\ SrvIdle /\ TaIdle /\ StIdle /\ RpcIdle /\ TkIdle /\ HsIdle /\ McIdle /\ MhIdle

RagNext == RgNext

SpecRag == RagInit /\ [][RagNext]_vars

\* The server.
Init == SrvInit /\ CmIdle /\ LgIdle /\ TaIdle /\ StIdle /\ RpcIdle /\ TkIdle /\ HsIdle /\ RgIdle /\ McIdle /\ MhIdle

Next == SrvNext

Spec == Init /\ [][Next]_vars

\* The token ledger with two trackers.
LedgerInit == LgInit /\ CmIdle /\ SrvIdle /\ TaIdle /\ StIdle /\ RpcIdle /\ TkIdle /\ HsIdle /\ RgIdle /\ McIdle /\ MhIdle

LedgerNext == LgNext

SpecLedger == LedgerInit /\ [][LedgerNext]_vars

\* The context builder.
BuildInit == CmInit /\ LgIdle /\ SrvIdle /\ TaIdle /\ StIdle /\ RpcIdle /\ TkIdle /\ HsIdle /\ RgIdle /\ McIdle /\ MhIdle

BuildNext == CmNext

SpecBuild == BuildInit /\ [][BuildNext]_vars

\* The store.
StoreOnlyInit == StoreInit /\ SrvIdle /\ CmIdle /\ LgIdle /\ TaIdle /\ RpcIdle /\ TkIdle /\ HsIdle /\ RgIdle /\ McIdle /\ MhIdle

StoreOnlyNext == StoreNext

SpecStore == StoreOnlyInit /\ [][StoreOnlyNext]_vars

\* The dispatcher on arbitrary input lines.
DispatchInit == RpcInit /\ SrvIdle /\ CmIdle /\ LgIdle /\ TaIdle /\ StIdle /\ TkIdle /\ HsIdle /\ RgIdle /\ McIdle /\ MhIdle

DispatchNext == RpcNext

SpecRpc == DispatchInit /\ [][DispatchNext]_vars

\* The tool loop.
ToolsInit == TaInit /\ CmIdle /\ LgIdle /\ SrvIdle /\ StIdle /\ RpcIdle /\ TkIdle /\ HsIdle /\ RgIdle /\ McIdle /\ MhIdle

ToolsNext == TaNext

SpecTools == ToolsInit /\ [][ToolsNext]_vars

\* The tool loop with a model and tools that do answer: every awaited model
\* call returns or raises, and so does every started tool execution.
ToolsLiveInit == ToolsInit

ToolsLiveNext == TaNext

SpecToolsLive == ToolsLiveInit /\ [][ToolsLiveNext]_vars /\ WF_vars(ToolsLiveNext)

(***************************************************************************)
(* Properties of the chat.send turn (checked under Spec).                  *)
(***************************************************************************)
InLog(event) == \E i \in 1..Len(turnLog) : turnLog[i] = event

\* event `first` occurs in the turn's log before position i
Before(first, i) == \E j \in 1..(i - 1) : turnLog[j] = first

\* The chat.stream notifications of the turn in `turn`, in emission order.
TurnNotes ==
    SelectSeq(outbox, LAMBDA n : /\ n.kind = "notification"
                                 /\ n.method = "chat.stream"
                                 /\ n.id = turn.id)

\* A streaming turn whose model stream was started has ended, with the
\* stream's end or with its failure.
StreamTurnEnded ==
    /\ pc = "idle"
    /\ turn.streaming
    /\ turn.phase \in {"ok", "error"}
    /\ InLog("llm_call")

\* The dispatcher has just written the response of a turn that succeeded.
JustFinished ==
    /\ pc = "idle"
    /\ turn.phase = "ok"
    /\ outbox # <<>>
    /\ Last(outbox).kind = "response"
    /\ Last(outbox).id = turn.id

\* C1: a streaming turn, whether its model stream ran to completion or
\* failed part-way, has emitted exactly one chat.stream notification with
\* done = true, and that one is the last chat.stream notification of the turn.
C1_ExactlyOneDone ==
    StreamTurnEnded =>
        /\ Len(SelectSeq(TurnNotes, LAMBDA n : n.done)) = 1
        /\ Last(TurnNotes).done

\* C2: within a turn the user message is recorded before the LLM call is
\* issued, and the assistant message and the turn's usage row are both
\* recorded before the done notification is sent.
C2_WriteOrder ==
    \A i \in 1..Len(turnLog) :
        /\ turnLog[i] = "llm_call" => Before("user_msg", i)
        /\ turnLog[i] = "done" => Before("assistant_msg", i) /\ Before("usage", i)

\* C3: after a turn completes in a session established through
\* session.create or session.load, the session's rows in the store end with
\* the turn's user message followed by its assistant message.
C3_TurnPersisted ==
    (JustFinished /\ envOk /\ currentSession # NoSession) =>
        LET log == SessionLog(dbMessages, currentSession)
        IN /\ Len(log) >= 2
           /\ LLMMsg(log[Len(log) - 1].role, log[Len(log) - 1].content)
                 = LLMMsg("user", turn.message)
           /\ LLMMsg(log[Len(log)].role, log[Len(log)].content)
                 = LLMMsg("assistant", turn.full)

\* C4: every completed turn, streaming or not, has recorded exactly one
\* usage row with the counts the LLM reported: get_session_stats reports as
\* request count the number of completed turns of the session, and as totals
\* the sums of the reported counts.
C4_UsagePerTurn ==
    (pc = "idle" /\ agent.tracker /\ agent.trackerSession \in dbSessions) =>
        LET stats == AgentStats(agent, dbUsage)
            done  == completed[agent.trackerSession]
        IN /\ stats.request_count = done.count
           /\ stats.total_input = done.input
           /\ stats.total_output = done.output

\* C5: when a turn is given a retrieval bundle, the message list handed to
\* the LLM holds the bundle in a system message placed before the current
\* user message, which is last.
C5_BundleInContext ==
    (pc \in {"complete", "stream"} /\ turn.rag # "") =>
        /\ Last(turn.context) = LLMMsg("user", turn.message)
        /\ \E i \in 1..(Len(turn.context) - 1) :
              /\ turn.context[i].role = "system"
              /\ turn.context[i].content \in {turn.rag, RagPrefix \o turn.rag}

\* C6: a request written while a turn is in flight is read and handled
\* before the turn's own response is written: no unread frame was written
\* during a turn whose response is already out.
C6_FramesHandledDuringTurn ==
    \A i \in 1..Len(inbox) :
        inbox[i].during # 0 =>
            ~ \E j \in 1..Len(outbox) :
                  /\ outbox[j].kind = "response"
                  /\ outbox[j].id = inbox[i].during

(***************************************************************************)
(* Properties of the token ledger (checked under SpecLedger).              *)
(***************************************************************************)
\* t is the only tracker bound to its session.
Sole(t) == \A u \in Trackers : u # t => lgSession[u] # lgSession[t]

\* The stats equal what has been recorded for the session.
MatchesRecorded(stats, sid) ==
    /\ stats.total_input = lgRecorded[sid].input
    /\ stats.total_output = lgRecorded[sid].output
    /\ stats.request_count = lgRecorded[sid].count

NotSmaller(new, old) ==
    /\ new.total_input >= old.total_input
    /\ new.total_output >= old.total_output
    /\ new.request_count >= old.request_count
    /\ TotalTokens(new) >= TotalTokens(old)

\* C7: for any interleaving of record and get_session_stats on the one
\* tracker of a session, get_session_stats returns the sums over the rows
\* recorded so far for that session, and never a total smaller than one it
\* returned earlier.
C7_LedgerTotals ==
    /\ [](\A t \in Trackers :
            (Sole(t) /\ lgLast = [op |-> "get", tracker |-> t]) =>
                MatchesRecorded(lgReturned[t], lgSession[t]))
    /\ [][\A t \in Trackers :
            Sole(t) => NotSmaller(lgReturned'[t], lgReturned[t])]_vars

\* A tracker alone on its session has returned the totals of two rows while
\* the table also holds a row of the other session.
C7_Witness ==
    /\ Sole("t1")
    /\ lgLast = [op |-> "get", tracker |-> "t1"]
    /\ lgReturned["t1"].request_count = 2
    /\ Len(lgRows) = 3

\* C8: once a record() on a session has returned, get_session_stats gives no
\* caller totals that omit the new row, whichever tracker instance bound to
\* that session the caller holds.
C8_NoStaleTotals ==
    \A t \in Trackers :
        lgLast = [op |-> "get", tracker |-> t] =>
            MatchesRecorded(lgReturned[t], lgSession[t])

(***************************************************************************)
(* Properties of ContextManager.build (checked under SpecBuild).           *)
(***************************************************************************)
BuildBudget == AvailableForContext(cmConfig)

UserTokens == EstimateTokens(cmArgs.user_message)

\* Tokens of the system prompt of the last build (0 when none was given).
SystemTokens ==
    IF cmArgs.system_prompt # "" THEN EstimateTokens(cmArgs.system_prompt) ELSE 0

EndsWithUserMessage ==
    /\ cmWindow.messages # <<>>
    /\ Last(cmWindow.messages) = LLMMsg("user", cmArgs.user_message)

\* C9 as stated: for any inputs the window has total_tokens <= max_tokens -
\* reserved_for_response + estimate(user_message) and ends with the current
\* user message.
C9_UpperBound ==
    cmBuilt =>
        /\ cmWindow.total_tokens <= BuildBudget + UserTokens
        /\ EndsWithUserMessage

\* C9, amended: the window has total_tokens <= max(max_tokens -
\* reserved_for_response, estimate(system_prompt)) + estimate(user_message)
\* and ends with the current user message.
C9_UpperBoundAmended ==
    cmBuilt =>
        /\ cmWindow.total_tokens <= Max(BuildBudget, SystemTokens) + UserTokens
        /\ EndsWithUserMessage

\* A window built around a system prompt that alone exceeds the budget.
C9_Witness ==
    /\ cmBuilt
    /\ SystemTokens > BuildBudget
    /\ cmWindow.total_tokens = SystemTokens + UserTokens

\* C10 as stated: total_tokens exceeds max_tokens - reserved_for_response by
\* no more than the tokens of the system message.
C10_BudgetRespected ==
    cmBuilt => cmWindow.total_tokens <= BuildBudget + SystemTokens

\* C10, amended: total_tokens exceeds max_tokens - reserved_for_response by
\* no more than the tokens of the system message plus those of the current
\* user message, the two messages build always keeps.
C10_BudgetRespectedAmended ==
    cmBuilt => cmWindow.total_tokens <= BuildBudget + SystemTokens + UserTokens

\* A window without system prompt that is over budget because of the user
\* message it must keep.
C10_Witness ==
    /\ cmBuilt
    /\ cmArgs.system_prompt = ""
    /\ cmWindow.rag_included
    /\ cmWindow.total_tokens > BuildBudget

\* The last build had neither system prompt nor retrieval bundle nor summary,
\* and every message of its log carries the same explicit token count.
PlainUniformBuild ==
    /\ cmBuilt
    /\ cmArgs.system_prompt = ""
    /\ cmArgs.rag_context = ""
    /\ cmArgs.summary = ""
    /\ cmArgs.history # <<>>
    /\ cmArgs.history[1].token_count > 0
    /\ \A i \in 1..Len(cmArgs.history) :
          cmArgs.history[i].token_count = cmArgs.history[1].token_count

\* The token count every message of that log carries.
UniformCount == cmArgs.history[1].token_count

\* History messages in the window (the user message is counted apart).
HistoryIncluded == cmWindow.included_message_count - 1

\* truncated is set when fewer than the last-N messages were included.
TruncatedWhenShort ==
    HistoryIncluded < Len(GetRecent(cmArgs.history, cmConfig.recent_messages))
        => cmWindow.truncated

\* C11 as stated: with no system prompt, bundle or summary and a log whose
\* messages each carry token count t, build includes at most
\* floor((max_tokens - reserved_for_response) / t) - 1 history messages, sets
\* truncated when it includes fewer than the last-N messages, and ends the
\* window with the user message.
C11_HistoryCount ==
    PlainUniformBuild =>
        /\ HistoryIncluded <= (BuildBudget \div UniformCount) - 1
        /\ TruncatedWhenShort
        /\ EndsWithUserMessage

\* C11, amended: build includes at most
\* max(0, floor((max_tokens - reserved_for_response - estimate(user_message)) / t))
\* history messages, sets truncated when it includes fewer than the last-N
\* messages, and ends the window with the user message.
C11_HistoryCountAmended ==
    PlainUniformBuild =>
        /\ HistoryIncluded
              <= Max(0, (BuildBudget - UserTokens) \div UniformCount)
        /\ TruncatedWhenShort
        /\ EndsWithUserMessage

\* A build that filled the budget left by the user message exactly as far as
\* the uniform count allows and had to leave a recent message out.
C11_Witness ==
    /\ PlainUniformBuild
    /\ HistoryIncluded >= 1
    /\ HistoryIncluded = (BuildBudget - UserTokens) \div UniformCount
    /\ HistoryIncluded > (BuildBudget \div UniformCount) - 1
    /\ cmWindow.truncated

(***************************************************************************)
(* Properties of the tool loop (checked under SpecTools, SpecToolsLive).   *)
(***************************************************************************)
Executions(c) == Len(taCalls[c].results)

Ended(c) == taCalls[c].pc = "ended"

\* C12: whatever the model answers, a call of chat_with_tools or
\* chat_stream_with_tools executes at most max_tool_iterations tools and
\* ends; when every response was a tool call (and nothing raised) it has
\* executed exactly max_tool_iterations tools.
C12_LoopBounded ==
    /\ [](\A c \in Callers :
            /\ Executions(c) <= taMax
            /\ (Ended(c) /\ taCalls[c].onlyCalls /\ taCalls[c].end # "exception")
                  => Executions(c) = taMax)
    /\ \A c \in Callers : (taCalls[c].pc # "idle") ~> Ended(c)

\* A streaming call answered with tool calls only has ended at the bound.
C12_Witness ==
    /\ taMax >= 2
    /\ Ended("c1")
    /\ taCalls["c1"].streaming
    /\ taCalls["c1"].onlyCalls
    /\ taCalls["c1"].end = "limit"
    /\ Executions("c1") = taMax

\* C13: when the loop reaches max_tool_iterations, the output of the call,
\* streaming or not, carries the marker "maximum" and lists every executed
\* tool call with its outcome.
C13_LimitSummary ==
    \A c \in Callers :
        (Ended(c) /\ taCalls[c].end = "limit") =>
            LET out == taCalls[c].output
            IN /\ \E i \in 1..Len(out) : out[i].kind = "maximum"
               /\ \A j \in 1..Executions(c) :
                     \E i \in 1..Len(out) :
                        /\ out[i].kind = "entry"
                        /\ out[i].tool = taCalls[c].results[j].tool
                        /\ out[i].value = taCalls[c].results[j].output

\* Caller c is the only one that has started a call.
OnlyCaller(c) == \A o \in Callers : o # c => taCalls[o].pc = "idle"

\* C14: when a call of chat_with_tools or chat_stream_with_tools ends, by a
\* final answer, at the iteration limit or by an exception from the model or
\* a tool, config.system_prompt is the value it had immediately before the
\* call; with no other call on the agent it stays so.
C14_PromptRestored ==
    /\ [](\A c \in Callers :
            (Ended(c) /\ OnlyCaller(c)) => taPrompt = taCalls[c].original)
    /\ [][\A c \in Callers :
            (~Ended(c) /\ taCalls'[c].pc = "ended")
                => taPrompt' = taCalls'[c].original]_vars

\* A call that had appended the tool instructions has ended by an exception
\* and the prompt is back.
C14_Witness ==
    /\ taToolPrompt # ""
    /\ Ended("c1")
    /\ taCalls["c1"].end = "exception"
    /\ Executions("c1") >= 1
    /\ taPrompt = taCalls["c1"].original

(***************************************************************************)
(* Properties of the store (checked under SpecStore).                      *)
(***************************************************************************)
\* Every row of messages and of token_usage references a stored session.
RowsReferenceSessions ==
    /\ \A i \in 1..Len(dbMessages) : dbMessages[i].session_id \in dbSessions
    /\ \A i \in 1..Len(dbUsage) : dbUsage[i].session_id \in dbSessions

\* A step in which a session row disappears takes all of that session's
\* message and usage rows with it and leaves the other rows as they were.
DeleteIsWhole ==
    \A sid \in SessionIds :
        (sid \in dbSessions /\ sid \notin dbSessions') =>
            /\ dbSessions' = dbSessions \ {sid}
            /\ SessionLog(dbMessages', sid) = <<>>
            /\ SessionRows(dbUsage', sid) = <<>>
            /\ \A o \in SessionIds \ {sid} :
                  /\ SessionLog(dbMessages', o) = SessionLog(dbMessages, o)
                  /\ SessionRows(dbUsage', o) = SessionRows(dbUsage, o)

\* An add or a record whose session is not stored raises and inserts nothing.
OrphanInsertFails ==
    (stLast'.op \in {"add", "record"} /\ stLast'.sid \notin dbSessions) =>
        /\ stLast'.raised
        /\ dbMessages' = dbMessages
        /\ dbUsage' = dbUsage

\* C15: in every state reachable by session create/load/delete, message
\* add/clear and usage record, each message row and each usage row references
\* a session that exists; a delete removes the session with all of its rows
\* in one step and leaves the rows of other sessions unchanged; an add or a
\* record against a deleted session fails without inserting a row.
C15_StoreIntegrity ==
    /\ []RowsReferenceSessions
    /\ [][DeleteIsWhole]_vars
    /\ [][OrphanInsertFails]_vars

\* A delete has just removed a session with a message row and a usage row
\* while the other session keeps a row in each table.
C15_Witness ==
    /\ stLast.op = "delete"
    /\ stLast.rows = 2
    /\ stLast.sid \notin dbSessions
    /\ Len(dbMessages) = 1
    /\ Len(dbUsage) = 1

(***************************************************************************)
(* Properties of the dispatcher (checked under SpecRpc).                   *)
(***************************************************************************)
\* Line n has been read and handled.
Served(n) == n <= Len(rpcSent) - Len(rpcIn)

ResponsesFor(n) == SelectSeq(rpcOut, LAMBDA r : r.line = n)

RunsFor(n) == SelectSeq(rpcRuns, LAMBDA r : r.line = n)

IsNotification(line) == line.kind = "object" /\ line.id = NullId

IsRequest(line) == line.kind = "object" /\ line.id # NullId

\* C16: for a frame without id the server writes no response, whether the
\* method is unknown, the handler raises or the handler succeeds; a
\* registered method's handler is still run exactly once.
C16_NotificationsUnanswered ==
    \A n \in 1..Len(rpcSent) :
        (Served(n) /\ IsNotification(rpcSent[n])) =>
            /\ ResponsesFor(n) = <<>>
            /\ (rpcSent[n].method \in RegisteredMethods => Len(RunsFor(n)) = 1)
            /\ (rpcSent[n].method \notin RegisteredMethods => RunsFor(n) = <<>>)

\* Three notifications have been served, one to an unknown method, one whose
\* handler raised and one whose handler returned, and nothing was written.
C16_Witness ==
    /\ rpcOut = <<>>
    /\ \E a, b, c \in 1..Len(rpcSent) :
          /\ Served(a) /\ Served(b) /\ Served(c)
          /\ IsNotification(rpcSent[a]) /\ rpcSent[a].method \notin RegisteredMethods
          /\ RunsFor(b) = <<[line |-> b, outcome |-> "raises"]>>
          /\ RunsFor(c) = <<[line |-> c, outcome |-> "returns"]>>

\* C17: every request frame with a non-null id gets exactly one response,
\* with the same id and exactly one of result and error; the error code is
\* -32601 when no handler is registered for the method and -32603 when the
\* handler raises.
C17_OneResponsePerRequest ==
    \A n \in 1..Len(rpcSent) :
        (Served(n) /\ IsRequest(rpcSent[n])) =>
            /\ Len(ResponsesFor(n)) = 1
            /\ LET r == ResponsesFor(n)[1]
               IN /\ r.id = rpcSent[n].id
                  /\ r.hasResult # r.hasError
                  /\ IF rpcSent[n].method \notin RegisteredMethods
                     THEN r.hasError /\ r.code = -32601
                     ELSE IF RunsFor(n) = <<[line |-> n, outcome |-> "raises"]>>
                     THEN r.hasError /\ r.code = -32603
                     ELSE /\ r.hasResult
                          /\ RunsFor(n) = <<[line |-> n, outcome |-> "returns"]>>

\* Requests with ids 0, 1 and 0 again have been answered in order with a
\* result, a method-not-found error and an internal error.
C17_Witness ==
    /\ Len(rpcOut) = 3
    /\ rpcIn = <<>>
    /\ rpcOut[1].id = 0 /\ rpcOut[1].hasResult
    /\ rpcOut[2].id = 1 /\ rpcOut[2].code = -32601
    /\ rpcOut[3].id = 0 /\ rpcOut[3].code = -32603

IsNotJson(line) == line.kind \in {"text", "bytes"}

\* C18: an input line that is not valid JSON yields exactly one response,
\* with error code -32700 and id null, runs no handler and does not stop the
\* server, which leaves its loop only at the end of the input.
C18_ParseError ==
    /\ \A n \in 1..Len(rpcSent) :
          (Served(n) /\ IsNotJson(rpcSent[n])) =>
              /\ Len(ResponsesFor(n)) = 1
              /\ ResponsesFor(n)[1].code = -32700
              /\ ResponsesFor(n)[1].id = NullId
              /\ RunsFor(n) = <<>>
    /\ ~rpcRunning => (rpcClosed /\ rpcIn = <<>>)

(***************************************************************************)
(* Properties of the session handlers and of streaming (checked under      *)
(* Spec).                                                                  *)
(***************************************************************************)
\* The step handles a session.load request whose id names no stored session.
LoadsMissingSession ==
    /\ CanRead("session.load")
    /\ Head(inbox).sid \notin dbSessions
    /\ inbox' = Tail(inbox)

\* C19: session.load of an id that names no stored session is answered with
\* the JSON-RPC error -32001, and the handlers' current session and agent
\* are left as they were.
C19_LoadNotFound ==
    [][LoadsMissingSession =>
          /\ Len(outbox') = Len(outbox) + 1
          /\ Last(outbox').kind = "response"
          /\ Last(outbox').id = Head(inbox).id
          /\ Last(outbox').code = -32001
          /\ currentSession' = currentSession
          /\ agent' = agent]_vars

RECURSIVE Concat(_)
Concat(chunks) ==
    IF chunks = <<>> THEN "" ELSE Head(chunks) \o Concat(Tail(chunks))

\* The texts of the chunk notifications of the turn, in emission order.
ChunkTexts ==
    LET notes == SelectSeq(TurnNotes, LAMBDA n : ~n.done)
    IN [i \in 1..Len(notes) |-> notes[i].text]

\* The assistant message the agent holds last: the last row of its session
\* in persistent mode, the last entry of _messages otherwise.
LastRecorded ==
    IF agent.kind = "persistent"
    THEN LET log == SessionLog(dbMessages, agent.session)
         IN LLMMsg(Last(log).role, Last(log).content)
    ELSE Last(agent.messages)

\* C20: in a streaming turn whose stream has ended, the chunk notifications
\* carry the chunks the LLM yielded, in that order and each once, all of
\* them before the done notification; their concatenation is the response
\* text chat.send returns and the assistant message recorded for the turn.
C20_ChunksInOrder ==
    (JustFinished /\ turn.streaming) =>
        /\ ChunkTexts = turn.yielded
        /\ \A i \in 1..Len(TurnNotes) : TurnNotes[i].done <=> i = Len(TurnNotes)
        /\ Last(outbox).text = Concat(ChunkTexts)
        /\ LastRecorded = LLMMsg("assistant", Concat(ChunkTexts))

\* A streaming turn has sent the chunks "a" and "b" and then done, and has
\* answered "ab".
C20_Witness ==
    /\ JustFinished
    /\ turn.streaming
    /\ turn.yielded = <<"a", "b">>
    /\ ChunkTexts = <<"a", "b">>
    /\ Last(outbox).text = "ab"

(***************************************************************************)
(* Properties of a tracker's budget and subscribers (checked under         *)
(* SpecTracker).                                                           *)
(***************************************************************************)
\* C21: with budget B (0 included) and recorded total T, get_budget_remaining
\* returns max(0, B - T), get_budget_percentage returns min(100, T/B*100) and
\* is_over_budget returns true exactly when the remaining budget is 0; with
\* no budget the first two return None and is_over_budget returns false.
C21_BudgetArithmetic ==
    LET B == tkBudget
        T == tkLast.total
        v == tkLast.value
    IN /\ tkLast.op = "remaining" =>
              IF B = NoBudget THEN v = NoneValue
              ELSE v = IntValue(Max(0, B - T))
       /\ tkLast.op = "percentage" =>
              IF B = NoBudget THEN v = NoneValue
              ELSE /\ v.kind = "ratio"
                   /\ IF T * 100 >= 100 * B THEN v.num = 100 * v.den
                      ELSE v.num * B = T * 100 * v.den
       /\ tkLast.op = "over" =>
              v = BoolValue(B # NoBudget /\ Max(0, B - T) = 0)

Count(listeners, f) == Len(SelectSeq(listeners, LAMBDA g : g = f))

\* C22: a record() inserts the usage row and calls every subscriber
\* registered when it began exactly once; a subscriber that raises stops
\* neither the insert nor the other subscribers, and record() does not raise.
C22_SubscribersNotified ==
    tkLast.op = "record" =>
        /\ tkLast.inserted
        /\ ~tkLast.raised
        /\ \A f \in Callbacks : tkLast.calls[f] = Count(tkLast.registered, f)

(***************************************************************************)
(* Properties of the history's and the window's order (checked under       *)
(* SpecHistory).                                                           *)
(***************************************************************************)
\* a is b with some elements left out
RECURSIVE IsSubSequence(_, _)
IsSubSequence(a, b) ==
    IF a = <<>> THEN TRUE
    ELSE IF b = <<>> THEN FALSE
    ELSE IF Head(a) = Head(b) THEN IsSubSequence(Tail(a), Tail(b))
    ELSE IsSubSequence(a, Tail(b))

\* The log handed to build as role/content messages, in the order added.
LoggedMessages ==
    [i \in 1..Len(hsLast.rows) |->
        LLMMsg(hsLast.rows[i].role, hsLast.rows[i].content)]

\* C23: the window of build holds, in this order, the system prompt (if
\* given), the retrieval system message (if included), the summary system
\* message (if included), the surviving log messages in the order they were
\* added, and last the current user message.
C23_WindowOrder ==
    hsLast.op = "build" =>
        LET w    == hsLast.window.messages
            sysN == IF hsLast.args.system_prompt # "" THEN 1 ELSE 0
            ragN == IF hsLast.window.rag_included THEN 1 ELSE 0
            sumN == IF hsLast.window.has_summary THEN 1 ELSE 0
            lead == sysN + ragN + sumN
        IN /\ Len(w) >= lead + 1
           /\ sysN = 1 => w[1] = LLMMsg("system", hsLast.args.system_prompt)
           /\ ragN = 1 =>
                 w[sysN + 1]
                    = LLMMsg("system", RagPrefix \o hsLast.args.rag_context)
           /\ sumN = 1 =>
                 w[sysN + ragN + 1]
                    = LLMMsg("system", SummaryPrefix \o hsLast.args.summary)
           /\ IsSubSequence(SubSeq(w, lead + 1, Len(w) - 1), LoggedMessages)
           /\ Last(w) = LLMMsg("user", hsLast.args.user_message)

\* C24: get_recent(N) returns the last min(N, count) messages of get_all()
\* in the same order, and both list a message added later after every
\* message added earlier, also when messages carry the same created_at.
C24_RecentOrder ==
    LET all == GetAll(hsLast.rows)
        r   == hsLast.result
        n   == Min(hsLast.limit, Len(all))
    IN /\ hsLast.op = "get_recent" =>
              /\ r = SubSeq(all, Len(all) - n + 1, Len(all))
              /\ \A i, j \in 1..Len(r) : i < j => r[i].id < r[j].id
       /\ hsLast.op = "get_all" =>
              \A i, j \in 1..Len(r) : i < j => r[i].id < r[j].id

\* The messages of role/content form of a list of rows.
AsMessages(rows) == [i \in 1..Len(rows) |-> LLMMsg(rows[i].role, rows[i].content)]

IsSystem(m) == m.role = "system"

IsNotSystem(m) == m.role # "system"

\* C25: build_simple returns a sub-list of its input in the input's order;
\* the non-system messages it keeps are the newest non-system messages of
\* the input and fit the budget; with always_include_system every system
\* message of the input is kept; truncated is true exactly when a message
\* of the input was left out.
C25_BuildSimple ==
    hsLast.op = "build_simple" =>
        LET input   == hsLast.result
            out     == hsLast.window.messages
            budget  == SimpleBudget(DefaultContextConfig, hsLast.max_tokens)
            plainIn == SelectSeq(AsMessages(input), IsNotSystem)
            plain   == SelectSeq(out, IsNotSystem)
        IN /\ IsSubSequence(out, AsMessages(input))
           /\ plain = SubSeq(plainIn, Len(plainIn) - Len(plain) + 1, Len(plainIn))
           /\ Len(plain) <= budget
           /\ hsLast.always =>
                 SelectSeq(out, IsSystem) = SelectSeq(AsMessages(input), IsSystem)
           /\ hsLast.window.truncated <=> Len(out) < Len(input)

\* C26: whenever the handlers hold a store and a query handle, the query
\* handle reads through that store object; so a search that follows a clear
\* of the store returns no chunk ingested before the clear and returns the
\* chunks ingested after it.
C26_QueryReadsStore ==
    /\ (rgStore # NoStore /\ rgQuery # NoQuery) =>
          /\ rgQuery.store = rgStore.obj
          /\ QueryCollection(rgQuery, rgStore) = rgStore.collection
    /\ (rgLast.op = "rag.search" /\ rgQuery # NoQuery) =>
          /\ ~rgLast.failed
          /\ \A c \in rgLast.results : c.n >= rgCleared[c.name]
          /\ rgLast.expected \subseteq rgLast.results

\* A search after a clear of the active collection that had a chunk before
\* the clear and found one ingested after it.
C26_Witness ==
    /\ rgLast.op = "rag.search"
    /\ rgStore # NoStore
    /\ rgCleared[rgStore.collection.name] > 0
    /\ \E c \in rgIngested : /\ c.name = rgStore.collection.name
                             /\ c.n < rgCleared[c.name]
    /\ rgLast.results # {}

\* C27: a search issued while the session bound to P1 is loaded returns only
\* chunks ingested under P1, and likewise for P2.
C27_CollectionIsolation ==
    (rgLast.op = "rag.search" /\ rgLast.current \in Paths) =>
        \A c \in rgLast.results : c.under = rgLast.current

\* The second half of C27: a session request for the path that is already
\* active leaves the store, the query handle and the active path alone.
SwitchToActiveIsNoOp ==
    [][(rgLast'.noop /\ rgLast'.op \in {"session.create", "session.load"}) =>
          UNCHANGED <<rgStore, rgQuery, rgPath, rgDb>>]_vars

\* C28: every line that reaches standard output is one complete JSON-RPC
\* frame written by the RPC writer.
C28_OnlyFrames ==
    \A i \in 1..Len(rgStdout) :
        /\ rgStdout[i].by = "JSONRPCServer"
        /\ rgStdout[i].frame

\* C29: the retrieval query of a turn is the extractor's refined query when
\* there is an extractor and it returns one; with no extractor, a failing
\* extractor or an empty query it is the user message, and the turn goes on.
C29_RetrievalQuery ==
    (rgLast.op = "chat.send" /\ rgLast.retrieves) =>
        /\ rgLast.extractor = "refined" => rgLast.query = RefinedQuery
        /\ rgLast.extractor \in {"none", "empty", "raises"} =>
              /\ rgLast.query = rgLast.message
              /\ rgLast.proceeds

\* C30: when the model call of a chat.send turn fails, before the first
\* chunk or between chunks, the response is a normal result whose text names
\* the error: never the text received so far, handed out as a success.
LastResponse == outbox[Len(outbox)]

C30_FailureIsReported ==
    (pc = "idle" /\ turn.failed /\ outbox # <<>>
        /\ LastResponse.kind = "response" /\ LastResponse.id = turn.id) =>
        /\ LastResponse.code = 0
        /\ LastResponse.text = "Error calling LLM"
        /\ turn.phase = "error"

\* A step in which the read loop of connection s takes the next outcome of
\* readline.
ReadStep(s) == mcPipe[s] # <<>> /\ mcPipe'[s] = Tail(mcPipe[s])

\* C31: the ids of a connection's requests go up by one, so a new id is not
\* the id of any earlier request; a response frame resolves the waiter of
\* its id (with the result, or with a failure for an error frame) and no
\* other, and a frame whose id has no waiter changes nothing.
C31_IdsAndWaiters ==
    [][\A s \in McServers :
          /\ mcRequestId'[s] \in {mcRequestId[s], mcRequestId[s] + 1}
          /\ mcRequestId'[s] # mcRequestId[s] =>
                /\ mcReq[s][mcRequestId'[s]] = "none"
                /\ mcRequestId'[s] \notin mcPending[s]
                /\ mcPending'[s] = mcPending[s] \cup {mcRequestId'[s]}
          /\ ReadStep(s) =>
                LET line == Head(mcPipe[s])
                IN /\ mcPending'[s] = mcPending[s]
                   /\ \A i \in McIds :
                        mcReq'[s][i] =
                            IF /\ line.kind \in {"result", "error"}
                               /\ line.id = i
                               /\ mcReq[s][i] = "waiting"
                            THEN IF line.kind = "error" THEN "exception"
                                 ELSE "result"
                            ELSE mcReq[s][i]]_vars

\* A response has resolved one waiter of a connection while another request
\* of the same connection is still waiting.
C31_Witness ==
    \E s \in McServers : \E i, j \in McIds :
        /\ i # j
        /\ mcReq[s][i] \in {"result", "exception"}
        /\ mcReq[s][j] = "waiting"

\* C32: once a request has finished, its id is no longer in the pending
\* table.
C32_FinishedNotPending ==
    \A s \in McServers : Finished(mcReq[s]) \cap mcPending[s] = {}

\* C33: the read loop drops a malformed line and goes on; at the end of the
\* output or a fatal read error it stops; the other connections' loops and
\* requests are not touched.
C33_ReadLoop ==
    [][\A s \in McServers :
          ReadStep(s) =>
             LET line == Head(mcPipe[s])
             IN /\ line.kind \in {"eof", "raises"} => mcReader'[s] = "stopped"
                /\ line.kind = "malformed" =>
                      /\ mcReader'[s] = "running"
                      /\ mcReq' = mcReq
                /\ \A t \in McServers \ {s} :
                      /\ mcReader'[t] = mcReader[t]
                      /\ mcReq'[t] = mcReq[t]
                      /\ mcPending'[t] = mcPending[t]]_vars

(***************************************************************************)
(* More properties of ContextManager.build (checked under SpecBuild).      *)
(***************************************************************************)
\* The last-N messages the last build read from its log, oldest first.
RecentOfBuild == GetRecent(cmArgs.history, cmConfig.recent_messages)

\* The log messages of the window: the messages between the system messages
\* and the closing user message.
HistoryPart ==
    SubSeq(cmWindow.messages,
           Len(cmWindow.messages) - HistoryIncluded,
           Len(cmWindow.messages) - 1)

\* Messages i..j of the last-N as they appear in a window.
RecentSlice(i, j) ==
    [k \in 1..(j - i + 1) |->
        LLMMsg(RecentOfBuild[i + k - 1].role, RecentOfBuild[i + k - 1].content)]

NonSystem(messages) == SelectSeq(messages, IsNotSystem)

\* user, assistant, user, assistant, ...: every user message has its reply.
Alternates(messages) ==
    /\ Len(messages) % 2 = 0
    /\ \A i \in 1..Len(messages) :
          messages[i].role = IF i % 2 = 1 THEN "user" ELSE "assistant"

\* C35: between turns the non-system messages of an in-memory agent's
\* history alternate user, assistant, each user message followed by its
\* reply; a turn whose model call failed has left no message behind.
C35_HistoryAlternates ==
    (pc = "idle" /\ agent.kind = "memory") => Alternates(NonSystem(agent.messages))

(***************************************************************************)
(* More properties of the tool loop (checked under SpecTools).             *)
(***************************************************************************)
\* No chat_with_tools / chat_stream_with_tools call is under way.
NoCallUnderWay == \A c \in Callers : taCalls[c].pc \in {"idle", "ended"}

\* C36: whatever the interleaving of two calls on one agent, once both have
\* finished the system prompt is the one the agent had before ("P"), and the
\* prompt never holds the tool instructions twice.
C36_PromptRestored ==
    /\ taPrompt \in {"P", "P\nT"}
    /\ NoCallUnderWay => taPrompt = "P"

(***************************************************************************)
(* More properties of the retrieval handlers (checked under SpecRag).      *)
(***************************************************************************)
\* The collections that belong to a codebase path.
CodebaseCollections == {CollectionName(p) : p \in Paths}

\* C37: once a session without codebase path has been created or loaded, the
\* collection that rag.search and chat.send read is not the collection of a
\* codebase (one made active for an earlier session).
C37_PathlessSession ==
    (/\ rgLast.op \in {"session.create", "session.load"}
     /\ rgLast.current = NoPath
     /\ rgQuery # NoQuery)
        => QueryCollection(rgQuery, rgStore).name \notin CodebaseCollections

(***************************************************************************)
(* More properties of the session handlers (checked under Spec).           *)
(***************************************************************************)
\* The dispatcher serves a session.create request in this step.
ServesSessionCreate == CanRead("session.create") /\ inbox' = Tail(inbox)

\* C38: a session.create request that is answered with an error has added
\* no session row and has left the current session and the agent as they
\* were.
C38_CreateAllOrNothing ==
    [][(ServesSessionCreate /\ Last(outbox').code # 0) =>
          UNCHANGED <<dbSessions, currentSession, agent>>]_vars

(***************************************************************************)
(* The token total of a window (checked under SpecBuild).                  *)
(***************************************************************************)
\* The token counts of the first n of the last-N log messages: the stored
\* count, or the estimate of the content when none is stored.
RECURSIVE KeptTokens(_)
KeptTokens(n) ==
    IF n = 0 THEN 0 ELSE MsgTokens(RecentOfBuild[n]) + KeptTokens(n - 1)

\* The sum of the token counts of the messages of the last window, the
\* bundle and the summary counted as the estimates of their texts.
WindowTokens ==
    SystemTokens
      + (IF cmWindow.rag_included THEN EstimateTokens(cmArgs.rag_context) ELSE 0)
      + (IF cmWindow.has_summary THEN EstimateTokens(cmArgs.summary) ELSE 0)
      + KeptTokens(HistoryIncluded)
      + UserTokens

\* C39: total_tokens of a window is the sum of the token counts of its
\* messages; a bundle in the window has no more estimated tokens than were
\* added to total_tokens for it.
C39_TotalIsSum ==
    cmBuilt => cmWindow.total_tokens = WindowTokens

(***************************************************************************)
(* Properties of the tool host (checked under SpecHost).                   *)
(***************************************************************************)
\* The host resolves the name: _tools has an entry for it.
Resolvable(n) == mhTools[n] # NoServer

\* Some registered server offers a tool of that name.
Offered(n) == \E s \in mhServers : n \in mhOffers[s]

\* C40: after any sequence of add_server, remove_server and shutdown a tool
\* name is resolvable exactly when a registered server offers it, and a
\* resolvable name is routed to a registered server that offers it.
C40_ResolvableIffOffered ==
    \A n \in McToolNames :
        /\ Resolvable(n) <=> Offered(n)
        /\ Resolvable(n) =>
              /\ mhTools[n] \in mhServers
              /\ n \in mhOffers[mhTools[n]]

=============================================================================
